---- MODULE Spec2Model ----
(***************************************************************************)
(* Dais-SDK / liteai_sdk: the streaming message assembler, the chunk       *)
(* normalizer that feeds it, and the tool execution dispatcher.            *)
(*                                                                         *)
(* Python values are tagged records: None, PyStr(<<chars>>), PyInt(n),     *)
(* PyBool(b), PyList(<<values>>), PyDict(<<<<key, value>>, ...>>).  A str  *)
(* is the sequence of its characters, so concatenation is \o and a JSON    *)
(* text can be scanned character by character.                             *)
(***************************************************************************)
EXTENDS Integers, Sequences, FiniteSets, TLC

VARIABLES
    collector,   \* AssistantMessageCollector: state, buffers, tool-call entries, usage
    message,     \* what get_message() returned (None before finalization)
    last_op,     \* the collector operation the host called last ("none" at first)
    raised,      \* exception left by that operation ("none": it returned)
    fed,         \* history: the raw chunks collect() accepted, in arrival order
    call,        \* dispatcher: the request being executed (entry, tool, arguments)
    outcome,     \* dispatcher: how the request ended (returned value / raised exception)
    invoked,     \* dispatcher: how many times the tool body ran for this request
    manager,     \* ToolExceptionHandlerManager._handlers (None: no manager constructed)
    log,         \* logger: the warning records emitted so far, oldest first
    handled,     \* history: the handle(e) calls made, each with what it did
    request,     \* registration: the host's tools and toolsets (None: nothing registered)
    listings,    \* the lists get_tools() returned, as the host holds them
    prepared,    \* how the last preparation of the request's tools ended (None before)
    found,       \* what the last find-by-name looked for and returned (None before)
    configured,  \* ghost: the handler the host set last for each exception class
    loop,        \* event loop: the task awaiting execute_tool and the tool it runs
    driver       \* stream driver: response position, chunks yielded, full-message queue

vars == <<collector, message, last_op, raised, fed, call, outcome, invoked,
          manager, log, handled, request, listings, prepared, found,
          configured, loop, driver>>
asm_vars == <<collector, message, last_op, raised, fed>>
exec_vars == <<call, outcome, invoked>>
handler_vars == <<manager, log, handled>>
registry_vars == <<request, listings, prepared, found>>
aux_vars == <<configured, loop, driver>>

\* ---------------------------------------------------------------- bounds

\* Number of raw chunks one response stream carries at most.
MaxChunks == 3

\* ---------------------------------------------------------- Python values

None == [none |-> TRUE]
PyStr(chars) == [s |-> chars]
PyInt(n) == [i |-> n]
PyBool(v) == [b |-> v]
PyList(items) == [l |-> items]
PyDict(pairs) == [d |-> pairs]

IsStr(v) == DOMAIN v = {"s"}
IsInt(v) == DOMAIN v = {"i"}
IsBool(v) == DOMAIN v = {"b"}
IsList(v) == DOMAIN v = {"l"}
IsDict(v) == DOMAIN v = {"d"}

\* Python truthiness of the values a delta field can hold: None, "" and []
\* are falsy, everything else is truthy.
Truthy(v) == /\ v # None
             /\ v # PyStr(<<>>)
             /\ v # PyList(<<>>)

\* --------------------------------------------- types/message.py: fragments

TextChunk(content) == [type |-> "TextChunk", content |-> content]
ReasoningChunk(content) == [type |-> "ReasoningChunk", content |-> content]
AudioChunk(data) == [type |-> "AudioChunk", data |-> data]
ImageChunk(data) == [type |-> "ImageChunk", data |-> data]
ToolCallChunk(id, name, arguments, index) ==
    [type |-> "ToolCallChunk", id |-> id, name |-> name,
     arguments |-> arguments, index |-> index]
\* The usage fragment of the spec's MessageFragment (UsageDelta).
UsageChunk(usage) == [type |-> "UsageChunk", usage |-> usage]

\* Slip: id and name passed to ToolCallChunk in the wrong positional order.
RECURSIVE tool_call_chunks_swapped(_)
tool_call_chunks_swapped(tool_calls) ==
    IF tool_calls = <<>> THEN <<>>
    ELSE LET tool_call == Head(tool_calls)
         IN <<ToolCallChunk(tool_call.function.name, tool_call.id,
                            tool_call.function.arguments, tool_call.index)>>
            \o tool_call_chunks_swapped(Tail(tool_calls))

\* Slip: the tool calls of one delta emitted last-to-first.
RECURSIVE tool_call_chunks_reversed(_)
tool_call_chunks_reversed(tool_calls) ==
    IF tool_calls = <<>> THEN <<>>
    ELSE LET tool_call == Head(tool_calls)
         IN tool_call_chunks_reversed(Tail(tool_calls))
            \o <<ToolCallChunk(tool_call.id, tool_call.function.name,
                               tool_call.function.arguments, tool_call.index)>>

\* Slip: only delta.tool_calls[0] emitted.
tool_call_chunks_first_only(tool_calls) ==
    IF tool_calls = <<>> THEN <<>>
    ELSE LET tool_call == Head(tool_calls)
         IN <<ToolCallChunk(tool_call.id, tool_call.function.name,
                            tool_call.function.arguments, tool_call.index)>>

\* for tool_call in delta.tool_calls: result.append(ToolCallChunk(...))
RECURSIVE tool_call_chunks(_)
tool_call_chunks(tool_calls) ==
    IF tool_calls = <<>> THEN <<>>
    ELSE LET tool_call == Head(tool_calls)
         IN <<ToolCallChunk(tool_call.id, tool_call.function.name,
                            tool_call.function.arguments, tool_call.index)>>
            \o tool_call_chunks(Tail(tool_calls))

\* The result of a call: the exception it raised ("none": it returned) and
\* the value it returned.
Returned(value) == [raised |-> "none", value |-> value]
Raised(exc) == [raised |-> exc, value |-> None]

\* Slip: content appended as a ReasoningChunk, reasoning_content as a TextChunk.
delta_chunks_crossed(delta) ==
    (IF Truthy(delta.content) THEN <<ReasoningChunk(delta.content)>> ELSE <<>>)
    \o (IF Truthy(delta.reasoning_content)
        THEN <<TextChunk(delta.reasoning_content)>> ELSE <<>>)
    \o (IF Truthy(delta.audio) THEN <<AudioChunk(delta.audio)>> ELSE <<>>)
    \o (IF Truthy(delta.images) THEN <<ImageChunk(delta.images)>> ELSE <<>>)
    \o (IF Truthy(delta.tool_calls) THEN tool_call_chunks(delta.tool_calls.l) ELSE <<>>)

\* The body of openai_chunk_normalizer after the guard: one fragment per
\* truthy field of the delta, in the order content, reasoning_content,
\* audio, images, tool_calls.
delta_chunks(delta) ==
    (IF Truthy(delta.content) THEN <<TextChunk(delta.content)>> ELSE <<>>)
    \o (IF Truthy(delta.reasoning_content)
        THEN <<ReasoningChunk(delta.reasoning_content)>> ELSE <<>>)
    \o (IF Truthy(delta.audio) THEN <<AudioChunk(delta.audio)>> ELSE <<>>)
    \o (IF Truthy(delta.images) THEN <<ImageChunk(delta.images)>> ELSE <<>>)
    \o (IF Truthy(delta.tool_calls) THEN tool_call_chunks(delta.tool_calls.l) ELSE <<>>)

\* Slip: chunk.choices[0] read without the emptiness guard (IndexError).
normalizer_unguarded(chunk) ==
    IF Len(chunk.choices) = 0 THEN Raised("IndexError")
    ELSE Returned(delta_chunks(chunk.choices[1].delta))

\* openai_chunk_normalizer(chunk) -> list[MessageChunk]
openai_chunk_normalizer(chunk) ==
    IF Len(chunk.choices) = 0 THEN Returned(<<>>)
    ELSE Returned(delta_chunks(chunk.choices[1].delta))

\* ------------------------------------------- stream.py: the collector
\* AssistantMessageCollector (imported by liteai_sdk/__init__.py; its file is
\* not among the sources): modelled from section 4.5 of the specification.

NewCollector ==
    [state |-> "Open", text |-> <<>>, reasoning |-> <<>>,
     tool_calls |-> <<>>, usage |-> None]

\* Position of the entry keyed by index in the entry list, 0 when absent.
EntryPos(entries, index) ==
    LET at == {k \in 1..Len(entries) : entries[k].index = index}
    IN IF at = {} THEN 0 ELSE CHOOSE k \in at : \A j \in at : k <= j

\* ToolCallArgumentDelta: look up or create the entry keyed by index, append
\* the chunk to its argument buffer, set id / name only when not yet set.
collect_tool_call(entries, frag) ==
    LET pos == EntryPos(entries, frag.index)
        old == IF pos = 0
               THEN [index |-> frag.index, id |-> None, name |-> None,
                     arguments |-> <<>>]
               ELSE entries[pos]
        new == [index |-> old.index,
                id |-> IF frag.id # None /\ old.id = None THEN frag.id ELSE old.id,
                name |-> IF frag.name # None /\ old.name = None
                         THEN frag.name ELSE old.name,
                arguments |-> old.arguments \o frag.arguments.s]
    IN IF pos = 0 THEN Append(entries, new) ELSE [entries EXCEPT ![pos] = new]

\* Slip: the first usage snapshot kept instead of the latest.
collect_fragment_usage_first(c, frag) ==
    CASE frag.type = "TextChunk" -> [c EXCEPT !.text = @ \o frag.content.s]
      [] frag.type = "ReasoningChunk" -> [c EXCEPT !.reasoning = @ \o frag.content.s]
      [] frag.type = "ToolCallChunk" ->
            [c EXCEPT !.tool_calls = collect_tool_call(@, frag)]
      [] frag.type = "UsageChunk" ->
            [c EXCEPT !.usage = IF @ = None THEN frag.usage ELSE @]
      [] OTHER -> c

\* collect(fragment) while Open, one fragment.
collect_fragment(c, frag) ==
    CASE frag.type = "TextChunk" -> [c EXCEPT !.text = @ \o frag.content.s]
      [] frag.type = "ReasoningChunk" -> [c EXCEPT !.reasoning = @ \o frag.content.s]
      [] frag.type = "ToolCallChunk" ->
            [c EXCEPT !.tool_calls = collect_tool_call(@, frag)]
      [] frag.type = "UsageChunk" -> [c EXCEPT !.usage = frag.usage]
      [] OTHER -> c

RECURSIVE collect_fragments(_, _)
collect_fragments(c, frags) ==
    IF frags = <<>> THEN c
    ELSE collect_fragments(collect_fragment(c, Head(frags)), Tail(frags))

\* The usage snapshot a raw chunk carries, as a UsageDelta fragment.
usage_chunks(chunk) ==
    IF chunk.usage # None THEN <<UsageChunk(chunk.usage)>> ELSE <<>>

\* Slip: a collect after finalization returns silently.
collect_ignoring_when_finalized(c, chunk) ==
    IF c.state = "Finalized" THEN Returned(c)
    ELSE Returned(collect_fragments(c, openai_chunk_normalizer(chunk).value
                                        \o usage_chunks(chunk)))

\* collector.collect(chunk): [raised, value |-> the collector afterwards].
\* After finalization it fails and changes nothing.
collect(c, chunk) ==
    IF c.state = "Finalized" THEN [raised |-> "CollectAfterFinalize", value |-> c]
    ELSE LET normalized == openai_chunk_normalizer(chunk)
         IN IF normalized.raised # "none"
            THEN [raised |-> normalized.raised, value |-> c]
            ELSE Returned(collect_fragments(c, normalized.value \o usage_chunks(chunk)))

\* collector.get_message(): the AssembledMessage.  An empty buffer maps to
\* None; entries are emitted in first-seen order.
get_message(c) ==
    [content |-> IF c.text = <<>> THEN None ELSE PyStr(c.text),
     reasoning_content |-> IF c.reasoning = <<>> THEN None ELSE PyStr(c.reasoning),
     tool_calls |-> [k \in 1..Len(c.tool_calls) |->
                        [id |-> c.tool_calls[k].id,
                         name |-> c.tool_calls[k].name,
                         arguments |-> PyStr(c.tool_calls[k].arguments)]],
     usage |-> c.usage]

\* ------------------------------------------------ the streamed input

Delta(content, reasoning_content, audio, tool_calls) ==
    [content |-> content, reasoning_content |-> reasoning_content,
     audio |-> audio, images |-> None, tool_calls |-> tool_calls]
RawChunk(delta, usage) == [choices |-> <<[delta |-> delta]>>, usage |-> usage]
DeltaToolCall(index, id, name, arguments) ==
    [id |-> id, function |-> [name |-> name, arguments |-> arguments],
     index |-> index]

Usages ==
    { [prompt_tokens |-> 1, completion_tokens |-> 1, total_tokens |-> 2],
      [prompt_tokens |-> 1, completion_tokens |-> 2, total_tokens |-> 3] }

\* <<index, id, name, arguments>> of the tool-call deltas of the input: for
\* each index, deltas with and without id / name, in both orders of arrival.
ToolCallDeltaTable ==
    { <<0, None, None, <<"}">>>>,
      <<0, PyStr(<<"1">>), PyStr(<<"f">>), <<"{">>>>,
      <<0, PyStr(<<"2">>), None, <<"{">>>>,
      <<0, None, PyStr(<<"g">>), <<"}">>>>,
      <<0, None, None, <<>>>>,
      <<1, None, None, <<"{">>>>,
      <<1, PyStr(<<"2">>), PyStr(<<"g">>), <<"{">>>>,
      <<1, PyStr(<<"1">>), None, <<"}">>>>,
      <<1, None, PyStr(<<"f">>), <<"{">>>> }

ToolCallDeltas ==
    { DeltaToolCall(t[1], t[2], t[3], PyStr(t[4])) : t \in ToolCallDeltaTable }

\* The raw chunks a provider stream is drawn from.
RawChunks ==
    \* no choices (the trailing usage chunk of a stream has none)
    { [choices |-> <<>>, usage |-> u] : u \in {None} \cup Usages }
    \* text, reasoning, audio
    \cup { RawChunk(Delta(PyStr(t), None, None, None), None) :
              t \in {<<>>, <<"a">>, <<"b">>} }
    \cup { RawChunk(Delta(None, PyStr(<<"r">>), None, None), None),
           RawChunk(Delta(PyStr(<<"a">>), PyStr(<<"q">>), None, None), None),
           RawChunk(Delta(None, None, PyStr(<<"w">>), None), None) }
    \* one tool-call delta
    \cup { RawChunk(Delta(None, None, None, PyList(<<tc>>)), None) :
              tc \in ToolCallDeltas }
    \* text and a tool call; two tool calls of one delta, index 1 first
    \cup { RawChunk(Delta(PyStr(<<"b">>), None, None,
                          PyList(<<DeltaToolCall(0, None, None, PyStr(<<"}">>))>>)),
                    None),
           RawChunk(Delta(None, None, None,
                          PyList(<<DeltaToolCall(1, PyStr(<<"2">>), PyStr(<<"g">>),
                                                 PyStr(<<"{">>)),
                                   DeltaToolCall(0, PyStr(<<"1">>), PyStr(<<"f">>),
                                                 PyStr(<<"{">>))>>)),
                    None) }

\* The chunks a host passes to collect() after finalization: one with text, one
\* with a tool-call delta, one with usage (collect() looks at none of them).
LateChunks ==
    { RawChunk(Delta(PyStr(<<"a">>), None, None, None), None),
      RawChunk(Delta(None, None, None,
                     PyList(<<DeltaToolCall(0, PyStr(<<"1">>), PyStr(<<"f">>),
                                            PyStr(<<"{">>))>>)), None),
      [choices |-> <<>>,
       usage |-> [prompt_tokens |-> 1, completion_tokens |-> 1, total_tokens |-> 2]] }

\* --------------------------------------------------- assembler actions

AsmInit ==
    /\ collector = NewCollector
    /\ message = None
    /\ last_op = "none"
    /\ raised = "none"
    /\ fed = <<>>
    /\ call = None
    /\ outcome = None
    /\ invoked = 0
    /\ manager = None
    /\ log = <<>>
    /\ handled = <<>>
    /\ request = None
    /\ listings = <<>>
    /\ prepared = None
    /\ found = None
    /\ configured = None
    /\ loop = None
    /\ driver = None

\* message_collector.collect(chunk), called by the host for the next chunk.
Collect(chunk) ==
    /\ IF collector.state = "Open" THEN Len(fed) < MaxChunks ELSE chunk \in LateChunks
    /\ LET r == collect(collector, chunk)
       IN /\ collector' = r.value
          /\ last_op' = "collect"
          /\ raised' = r.raised
          /\ fed' = IF r.raised = "none" THEN Append(fed, chunk) ELSE fed
    /\ UNCHANGED <<message, exec_vars, handler_vars, registry_vars, aux_vars>>

\* message_collector.get_message(): Open -> Finalized.
Finalize ==
    /\ collector.state = "Open"
    /\ message' = get_message(collector)
    /\ collector' = [collector EXCEPT !.state = "Finalized"]
    /\ last_op' = "get_message"
    /\ raised' = "none"
    /\ UNCHANGED <<fed, exec_vars, handler_vars, registry_vars, aux_vars>>

AsmNext ==
    \/ \E chunk \in RawChunks : Collect(chunk)
    \/ Finalize

AsmSpec == AsmInit /\ [][AsmNext]_vars

\* ======================================================================
\* Properties of the streaming assembler, stated over the raw chunks the
\* collector accepted (fed), independently of how collect() folds them.
\* ======================================================================

\* The tool-call deltas of the accepted chunks, in arrival order.
RECURSIVE FedToolCalls(_)
FedToolCalls(chunks) ==
    IF chunks = <<>> THEN <<>>
    ELSE LET ch == Head(chunks)
             here == IF Len(ch.choices) > 0 /\ Truthy(ch.choices[1].delta.tool_calls)
                     THEN ch.choices[1].delta.tool_calls.l ELSE <<>>
         IN here \o FedToolCalls(Tail(chunks))

\* A field of the deltas of the accepted chunks, concatenated in arrival order.
RECURSIVE FedText(_, _)
FedText(chunks, field) ==
    IF chunks = <<>> THEN <<>>
    ELSE LET ch == Head(chunks)
             v == IF Len(ch.choices) > 0 THEN ch.choices[1].delta[field] ELSE None
         IN (IF v = None THEN <<>> ELSE v.s) \o FedText(Tail(chunks), field)

\* The argument chunks received for an index, concatenated in arrival order.
RECURSIVE ArgsOf(_, _)
ArgsOf(deltas, index) ==
    IF deltas = <<>> THEN <<>>
    ELSE (IF Head(deltas).index = index THEN Head(deltas).function.arguments.s
          ELSE <<>>) \o ArgsOf(Tail(deltas), index)

\* The id of the first delta of the index that carries one (None if none does).
RECURSIVE FirstId(_, _)
FirstId(deltas, index) ==
    IF deltas = <<>> THEN None
    ELSE IF Head(deltas).index = index /\ Head(deltas).id # None THEN Head(deltas).id
    ELSE FirstId(Tail(deltas), index)

RECURSIVE FirstName(_, _)
FirstName(deltas, index) ==
    IF deltas = <<>> THEN None
    ELSE IF Head(deltas).index = index /\ Head(deltas).function.name # None
         THEN Head(deltas).function.name
    ELSE FirstName(Tail(deltas), index)

\* The indices in the order in which each first appeared.
RECURSIVE FirstSeen(_, _)
FirstSeen(deltas, seen) ==
    IF deltas = <<>> THEN <<>>
    ELSE IF Head(deltas).index \in seen THEN FirstSeen(Tail(deltas), seen)
    ELSE <<Head(deltas).index>>
         \o FirstSeen(Tail(deltas), seen \cup {Head(deltas).index})

\* The usage of the last accepted chunk that carries one (None if none does).
RECURSIVE LastUsage(_)
LastUsage(chunks) ==
    IF chunks = <<>> THEN None
    ELSE IF chunks[Len(chunks)].usage # None THEN chunks[Len(chunks)].usage
    ELSE LastUsage(SubSeq(chunks, 1, Len(chunks) - 1))

Finalized == collector.state = "Finalized"

\* C1: after finalize, the tool-call list holds exactly one entry for each
\* index that appeared in a tool-call delta (and none for any other), and
\* the entry's arguments are the concatenation, in arrival order, of the
\* argument chunks of that index, whatever was interleaved between them.
C1_OneEntryPerIndex ==
    Finalized =>
        LET deltas == FedToolCalls(fed)
            seen == {deltas[k].index : k \in 1..Len(deltas)}
        IN /\ Len(message.tool_calls) = Len(collector.tool_calls)
           /\ Len(message.tool_calls) = Cardinality(seen)
           /\ \A index \in seen :
                 Cardinality({k \in 1..Len(collector.tool_calls) :
                                 collector.tool_calls[k].index = index}) = 1
           /\ \A k \in 1..Len(message.tool_calls) :
                 /\ collector.tool_calls[k].index \in seen
                 /\ message.tool_calls[k].arguments =
                       PyStr(ArgsOf(deltas, collector.tool_calls[k].index))

\* Two indices were seen, one of them in several deltas with text between.
C1_Witness ==
    /\ Finalized
    /\ Len(message.tool_calls) = 2
    /\ message.content # None
    /\ \E k \in 1..2 : message.tool_calls[k].arguments = PyStr(<<"{", "}">>)

\* C2: an entry's id (name) is that of the first delta of its index that
\* carried one, at every moment and in the finalized message: no later
\* delta of the index, with a null or with another value, changes it.
C2_IdentityFromFirstCarrier ==
    LET deltas == FedToolCalls(fed)
    IN /\ \A k \in 1..Len(collector.tool_calls) :
             /\ collector.tool_calls[k].id =
                   FirstId(deltas, collector.tool_calls[k].index)
             /\ collector.tool_calls[k].name =
                   FirstName(deltas, collector.tool_calls[k].index)
       /\ Finalized =>
             \A k \in 1..Len(message.tool_calls) :
                 /\ message.tool_calls[k].id =
                       FirstId(deltas, collector.tool_calls[k].index)
                 /\ message.tool_calls[k].name =
                       FirstName(deltas, collector.tool_calls[k].index)

\* Index 0 received id "1", then a delta with another id and one with none.
C2_Witness ==
    /\ Finalized
    /\ Len(message.tool_calls) = 1
    /\ message.tool_calls[1].id = PyStr(<<"1">>)
    /\ message.tool_calls[1].name = PyStr(<<"f">>)
    /\ \E i, j \in 1..Len(FedToolCalls(fed)) :
          /\ i > 1 /\ j > 1
          /\ FedToolCalls(fed)[i].id = PyStr(<<"2">>)
          /\ FedToolCalls(fed)[j].id = None

\* C3: the entries are ordered by the position at which each index first
\* appeared, not by the value of the index, at every moment (so a later
\* delta of a seen index never moves its entry) and in the finalized list.
C3_FirstSeenOrder ==
    LET deltas == FedToolCalls(fed)
        order == FirstSeen(deltas, {})
    IN /\ [k \in 1..Len(collector.tool_calls) |-> collector.tool_calls[k].index]
             = order
       /\ Finalized =>
             /\ Len(message.tool_calls) = Len(order)
             /\ \A k \in 1..Len(message.tool_calls) :
                   message.tool_calls[k] =
                       [id |-> FirstId(deltas, order[k]),
                        name |-> FirstName(deltas, order[k]),
                        arguments |-> PyStr(ArgsOf(deltas, order[k]))]

\* Index 1 was seen before index 0, and index 1 received a later delta.
C3_Witness ==
    /\ Finalized
    /\ FirstSeen(FedToolCalls(fed), {}) = <<1, 0>>
    /\ FedToolCalls(fed)[Len(FedToolCalls(fed))].index = 1
    /\ Len(FedToolCalls(fed)) = 3

\* The chunk a Collect step accepted.
Accepted == fed'[Len(fed')]
OnlyContent(ch) ==
    /\ Len(ch.choices) > 0 /\ ch.usage = None
    /\ ch.choices[1].delta.reasoning_content = None
    /\ ch.choices[1].delta.tool_calls = None
OnlyReasoning(ch) ==
    /\ Len(ch.choices) > 0 /\ ch.usage = None
    /\ ch.choices[1].delta.content = None
    /\ ch.choices[1].delta.tool_calls = None

C4_Step ==
    /\ Len(fed') = Len(fed) + 1 /\ OnlyContent(Accepted) =>
          /\ collector'.reasoning = collector.reasoning
          /\ collector'.tool_calls = collector.tool_calls
    /\ Len(fed') = Len(fed) + 1 /\ OnlyReasoning(Accepted) =>
          /\ collector'.text = collector.text
          /\ collector'.tool_calls = collector.tool_calls
    /\ collector'.state = "Finalized" =>
          /\ message'.content =
                (IF FedText(fed', "content") = <<>> THEN None
                 ELSE PyStr(FedText(fed', "content")))
          /\ message'.reasoning_content =
                (IF FedText(fed', "reasoning_content") = <<>> THEN None
                 ELSE PyStr(FedText(fed', "reasoning_content")))

\* C4: for any interleaving, the finalized text is the concatenation of the
\* text contents in arrival order and the finalized reasoning text that of
\* the reasoning contents; a text fragment changes neither the reasoning
\* buffer nor a tool-call entry, a reasoning fragment neither the text
\* buffer nor a tool-call entry.
C4_TextAndReasoning == [][C4_Step]_vars

\* Text "a" and "b" around a tool-call delta and a reasoning fragment.
C4_Witness ==
    /\ Finalized
    /\ message.content = PyStr(<<"a", "b">>)
    /\ message.reasoning_content = PyStr(<<"q">>)
    /\ Len(message.tool_calls) = 1

\* C5: a collect after finalize fails with an error and leaves the
\* finalized message (text, reasoning text, tool calls, usage) as it was.
C5_CollectAfterFinalizeFails ==
    [][Finalized =>
          /\ last_op' = "collect" => raised' # "none"
          /\ message' = message
          /\ collector' = collector]_vars

C5_Witness ==
    /\ Finalized
    /\ last_op = "collect"
    /\ raised = "CollectAfterFinalize"
    /\ message.content # None
    /\ message.usage # None
    /\ Len(message.tool_calls) > 0

\* C6: while Open no collect raises, whatever the chunk (empty content, no
\* choices, a tool-call delta without id and name); finalize from Open
\* succeeds for every fragment sequence, the empty one included; with no
\* text fragment collected the finalized text is None, not the empty
\* string, and likewise the reasoning text.
C6_NeverRaisesWhileOpen ==
    /\ collector.state = "Open" => raised = "none" /\ ENABLED Finalize
    /\ last_op = "get_message" => raised = "none" /\ Finalized /\ message # None
    /\ Finalized =>
          /\ FedText(fed, "content") = <<>> => message.content = None
          /\ FedText(fed, "reasoning_content") = <<>> => message.reasoning_content = None
          /\ message.content # PyStr(<<>>)
          /\ message.reasoning_content # PyStr(<<>>)

\* A chunk without choices, an empty text and an anonymous tool-call delta
\* were collected, then finalize returned a message without text.
C6_Witness ==
    /\ Finalized
    /\ last_op = "get_message"
    /\ Len(fed) = 3
    /\ \E k \in 1..3 : fed[k].choices = <<>>
    /\ \E k \in 1..3 : Len(fed[k].choices) > 0
                         /\ fed[k].choices[1].delta.content = PyStr(<<>>)
    /\ \E k \in 1..3 : Len(fed[k].choices) > 0
                         /\ fed[k].choices[1].delta.tool_calls # None
    /\ message.content = None
    /\ message.tool_calls[1].id = None
    /\ message.tool_calls[1].name = None

\* C7: the usage of the finalized message is the last usage snapshot
\* collected (replaced, never summed), None when none was collected; text
\* and tool-call fragments after it do not change it.
C7_UsageLastWins ==
    /\ collector.usage = LastUsage(fed)
    /\ Finalized => message.usage = LastUsage(fed)

\* Two different snapshots, then a text fragment.
C7_Witness ==
    /\ Finalized
    /\ Len(fed) = 3
    /\ fed[1].usage # None /\ fed[2].usage # None /\ fed[1].usage # fed[2].usage
    /\ fed[3].usage = None /\ message.content # None
    /\ message.usage = fed[2].usage

\* ======================================================================
\* json: the serializer and the parser the dispatcher calls.  A text is
\* the sequence of its characters.  Numbers are integers; the characters
\* of a str are letters, the quote, the backslash and one non-ASCII
\* character (NonAscii), which is all the escaping rules distinguish.
\* ======================================================================

Digits == <<"0", "1", "2", "3", "4", "5", "6", "7", "8", "9">>
DigitSet == {Digits[k] : k \in 1..10}
DigitValue(c) == CHOOSE n \in 0..9 : Digits[n + 1] = c
\* One character outside ASCII (U+4F60), and its \uXXXX escape.
NonAscii == "U+4F60"
NonAsciiEscape == <<"\\", "u", "4", "f", "6", "0">>

RECURSIVE NatChars(_)
NatChars(n) ==
    IF n < 10 THEN <<Digits[n + 1]>>
    ELSE NatChars(n \div 10) \o <<Digits[(n % 10) + 1]>>
IntChars(n) == IF n < 0 THEN <<"-">> \o NatChars(-n) ELSE NatChars(n)

\* json.encoder: escaping of one character of a str.
EscapeChar(c, ensure_ascii) ==
    CASE c = "\"" -> <<"\\", "\"">>
      [] c = "\\" -> <<"\\", "\\">>
      [] c = NonAscii /\ ensure_ascii -> NonAsciiEscape
      [] OTHER -> <<c>>

RECURSIVE EscapeChars(_, _)
EscapeChars(chars, ensure_ascii) ==
    IF chars = <<>> THEN <<>>
    ELSE EscapeChar(Head(chars), ensure_ascii) \o EscapeChars(Tail(chars), ensure_ascii)

\* A value json.dumps accepts: None, bool, int, str, list, dict with str
\* keys.  Anything else (a coroutine object) makes it raise TypeError.
RECURSIVE Serializable(_)
Serializable(v) ==
    \/ v = None \/ IsBool(v) \/ IsInt(v) \/ IsStr(v)
    \/ IsList(v) /\ \A k \in 1..Len(v.l) : Serializable(v.l[k])
    \/ IsDict(v) /\ \A k \in 1..Len(v.d) : Serializable(v.d[k][2])

\* json.dumps(v, ensure_ascii=...), default separators ", " and ": ".
RECURSIVE json_dumps(_, _)
RECURSIVE DumpItems(_, _)
RECURSIVE DumpPairs(_, _)
json_dumps(v, ensure_ascii) ==
    CASE v = None -> <<"n", "u", "l", "l">>
      [] IsBool(v) -> IF v.b THEN <<"t", "r", "u", "e">> ELSE <<"f", "a", "l", "s", "e">>
      [] IsInt(v) -> IntChars(v.i)
      [] IsStr(v) -> <<"\"">> \o EscapeChars(v.s, ensure_ascii) \o <<"\"">>
      [] IsList(v) -> <<"[">> \o DumpItems(v.l, ensure_ascii) \o <<"]">>
      [] IsDict(v) -> <<"{">> \o DumpPairs(v.d, ensure_ascii) \o <<"}">>
DumpItems(items, ensure_ascii) ==
    IF items = <<>> THEN <<>>
    ELSE json_dumps(Head(items), ensure_ascii)
         \o (IF Len(items) > 1 THEN <<",", " ">> ELSE <<>>)
         \o DumpItems(Tail(items), ensure_ascii)
DumpPairs(pairs, ensure_ascii) ==
    IF pairs = <<>> THEN <<>>
    ELSE <<"\"">> \o EscapeChars(Head(pairs)[1], ensure_ascii) \o <<"\"", ":", " ">>
         \o json_dumps(Head(pairs)[2], ensure_ascii)
         \o (IF Len(pairs) > 1 THEN <<",", " ">> ELSE <<>>)
         \o DumpPairs(Tail(pairs), ensure_ascii)

\* json.decoder.  A parse step yields [ok, value, next]: next is the
\* position after the value; ok = FALSE is JSONDecodeError.
Parsed(value, next) == [ok |-> TRUE, value |-> value, next |-> next]
ParseFail == [ok |-> FALSE, value |-> None, next |-> 0]

RECURSIVE SkipWs(_, _)
SkipWs(t, i) == IF i <= Len(t) /\ t[i] = " " THEN SkipWs(t, i + 1) ELSE i

Matches(t, i, lit) ==
    /\ i + Len(lit) - 1 <= Len(t)
    /\ SubSeq(t, i, i + Len(lit) - 1) = lit

\* dict[key] = value: a repeated key keeps its place and takes the last value.
DictSet(pairs, key, value) ==
    IF \E k \in 1..Len(pairs) : pairs[k][1] = key
    THEN [k \in 1..Len(pairs) |->
             IF pairs[k][1] = key THEN <<key, value>> ELSE pairs[k]]
    ELSE Append(pairs, <<key, value>>)

\* The characters of a string, from position i (after the opening quote).
RECURSIVE ParseString(_, _, _)
ParseString(t, i, acc) ==
    IF i > Len(t) THEN ParseFail
    ELSE IF t[i] = "\"" THEN Parsed(PyStr(acc), i + 1)
    ELSE IF t[i] = "\\" THEN
        IF i + 1 > Len(t) THEN ParseFail
        ELSE IF t[i + 1] \in {"\"", "\\", "/"}
             THEN ParseString(t, i + 2, Append(acc, t[i + 1]))
        ELSE IF Matches(t, i, NonAsciiEscape)
             THEN ParseString(t, i + Len(NonAsciiEscape), Append(acc, NonAscii))
        ELSE ParseFail
    ELSE ParseString(t, i + 1, Append(acc, t[i]))

RECURSIVE ScanDigits(_, _, _)
ScanDigits(t, i, n) ==
    IF i <= Len(t) /\ t[i] \in DigitSet
    THEN ScanDigits(t, i + 1, 10 * n + DigitValue(t[i]))
    ELSE [value |-> n, next |-> i]

\* -?(0|[1-9][0-9]*)
ParseNumber(t, i) ==
    LET neg == t[i] = "-"
        j == IF neg THEN i + 1 ELSE i
    IN IF j > Len(t) \/ t[j] \notin DigitSet THEN ParseFail
       ELSE IF t[j] = "0" THEN Parsed(PyInt(0), j + 1)
       ELSE LET d == ScanDigits(t, j, 0)
            IN Parsed(PyInt(IF neg THEN -d.value ELSE d.value), d.next)

RECURSIVE ParseValue(_, _)
RECURSIVE ParseElements(_, _, _)
RECURSIVE ParseMembers(_, _, _)
ParseValue(t, i) ==
    IF i > Len(t) THEN ParseFail
    ELSE CASE t[i] = "\"" -> ParseString(t, i + 1, <<>>)
           [] t[i] = "{" ->
                LET k == SkipWs(t, i + 1)
                IN IF k <= Len(t) /\ t[k] = "}" THEN Parsed(PyDict(<<>>), k + 1)
                   ELSE ParseMembers(t, k, <<>>)
           [] t[i] = "[" ->
                LET k == SkipWs(t, i + 1)
                IN IF k <= Len(t) /\ t[k] = "]" THEN Parsed(PyList(<<>>), k + 1)
                   ELSE ParseElements(t, k, <<>>)
           [] Matches(t, i, <<"n", "u", "l", "l">>) -> Parsed(None, i + 4)
           [] Matches(t, i, <<"t", "r", "u", "e">>) -> Parsed(PyBool(TRUE), i + 4)
           [] Matches(t, i, <<"f", "a", "l", "s", "e">>) -> Parsed(PyBool(FALSE), i + 5)
           [] t[i] = "-" \/ t[i] \in DigitSet -> ParseNumber(t, i)
           [] OTHER -> ParseFail
\* value (, value)* ] from position i
ParseElements(t, i, acc) ==
    LET r == ParseValue(t, i)
        k == SkipWs(t, r.next)
    IN IF ~r.ok \/ k > Len(t) THEN ParseFail
       ELSE IF t[k] = "," THEN ParseElements(t, SkipWs(t, k + 1), Append(acc, r.value))
       ELSE IF t[k] = "]" THEN Parsed(PyList(Append(acc, r.value)), k + 1)
       ELSE ParseFail
\* "key" : value (, "key" : value)* } from position i
ParseMembers(t, i, acc) ==
    IF i > Len(t) \/ t[i] # "\"" THEN ParseFail
    ELSE LET key == ParseString(t, i + 1, <<>>)
             c == SkipWs(t, key.next)
         IN IF ~key.ok \/ c > Len(t) \/ t[c] # ":" THEN ParseFail
            ELSE LET r == ParseValue(t, SkipWs(t, c + 1))
                     k == SkipWs(t, r.next)
                 IN IF ~r.ok \/ k > Len(t) THEN ParseFail
                    ELSE IF t[k] = ","
                         THEN ParseMembers(t, SkipWs(t, k + 1),
                                           DictSet(acc, key.value.s, r.value))
                    ELSE IF t[k] = "}"
                         THEN Parsed(PyDict(DictSet(acc, key.value.s, r.value)), k + 1)
                    ELSE ParseFail

\* json.loads(text): one value, nothing but whitespace around it.
json_loads(text) ==
    LET r == ParseValue(text, SkipWs(text, 1))
    IN IF r.ok /\ SkipWs(text, r.next) = Len(text) + 1 THEN r ELSE ParseFail

\* ======================================================================
\* Tools.  A callable tool is a plain function or a bound method, sync or
\* async, with the keyword parameters it requires and those it accepts
\* besides; a ToolDef wraps one as .execute.  Anything else (a raw schema
\* mapping) is no callable and no ToolDef.
\* ======================================================================

ToolFn(kind, name, is_async, required, optional, body) ==
    [kind |-> kind, name |-> name, is_async |-> is_async,
     required |-> required, optional |-> optional, body |-> body]
ToolDef(name, execute) == [kind |-> "tooldef", name |-> name, execute |-> execute]
RawToolDef(name) == [kind |-> "other", name |-> name]

\* A value that is no tool at all, by its class: 123, "not a function",
\* [1, 2, 3], None.
NoTool(kind) == [kind |-> kind, name |-> <<>>]
NoTools == {NoTool(kind) : kind \in {"int", "str", "list", "NoneType"}}

\* Parameter names.
V == <<"v">>
X == <<"x">>

\* def echo(v): return v
echo == ToolFn("function", <<"e", "c", "h", "o">>, FALSE, {V}, {}, "echo")
\* async def echo_async(v): return v
echo_async == ToolFn("function", <<"e", "c", "h", "o", "_", "a">>, TRUE, {V}, {}, "echo")
\* obj.echo_method, bound: def echo_method(self, v): return v
echo_method == ToolFn("method", <<"e", "c", "h", "o", "_", "m">>, FALSE, {V}, {}, "echo")
\* def fail(v=None): raise ValueError
fail == ToolFn("function", <<"f", "a", "i", "l">>, FALSE, {}, {V}, "fail")
\* async def fail_async(v=None): raise ValueError
fail_async == ToolFn("function", <<"f", "a", "i", "l", "_", "a">>, TRUE, {}, {V}, "fail")

\* def pair(v, x=None): return [v, x]
pair == ToolFn("function", <<"p", "a", "i", "r">>, FALSE, {V}, {X}, "pair")

\* A ToolDef as PythonToolset.get_tools builds it: .defaults carries the
\* static configs given to @python_tool(defaults=...).
ToolDefWithDefaults(name, execute, defaults) ==
    [kind |-> "tooldef", name |-> name, execute |-> execute, defaults |-> defaults]
HasDefaults(tool) == tool.kind = "tooldef" /\ "defaults" \in DOMAIN tool

\* A config key that is no parameter of the tool (auto_approve).
AutoApprove == <<"a", "p">>

ToolsWithDefaults ==
    {ToolDefWithDefaults(pair.name, pair, PyDict(<<<<X, PyInt(9)>>>>)),
     ToolDefWithDefaults(pair.name, pair, PyDict(<<<<V, PyInt(5)>>>>)),
     ToolDefWithDefaults(pair.name, pair, PyDict(<<<<V, PyInt(5)>>, <<X, PyInt(9)>>>>)),
     ToolDefWithDefaults(echo.name, echo, PyDict(<<<<AutoApprove, PyBool(TRUE)>>>>)),
     ToolDefWithDefaults(echo.name, echo, PyDict(<<>>))}

Tools ==
    {echo, echo_async, echo_method, fail, fail_async,
     ToolDef(echo.name, echo), ToolDef(fail_async.name, fail_async),
     RawToolDef(<<"r", "a", "w">>)}
    \cup ToolsWithDefaults \cup NoTools

\* The object a call of an async function returns before it is awaited.
Coroutine(fn, arguments) == [coroutine |-> fn, arguments |-> arguments]

\* How a call ended: the exception type that left it ("none": it returned),
\* the attributes a typed tool exception carries (None for a plain Python
\* exception), the value it returned, what the tool callable itself
\* returned, and how many times a tool body ran.
Raise(exc, n) ==
    [raised |-> exc, error |-> None, value |-> None, returned |-> None, invoked |-> n]
Return(value, returned, n) ==
    [raised |-> "none", error |-> None, value |-> value, returned |-> returned,
     invoked |-> n]

Keys(mapping) == {mapping.d[k][1] : k \in 1..Len(mapping.d)}
GetItem(mapping, key) ==
    mapping.d[CHOOSE k \in 1..Len(mapping.d) : mapping.d[k][1] = key][2]

\* f(**arguments) binds: arguments is a mapping, every required parameter
\* is present and no key is unknown.  Otherwise the call raises TypeError.
Binds(fn, arguments) ==
    /\ IsDict(arguments)
    /\ fn.required \subseteq Keys(arguments)
    /\ Keys(arguments) \subseteq (fn.required \cup fn.optional)

\* The body of a tool, run with bound arguments.
run_body(fn, arguments) ==
    CASE fn.body = "echo" -> Return(GetItem(arguments, V), GetItem(arguments, V), 1)
      [] fn.body = "fail" -> Raise("ValueError", 1)
      [] fn.body = "pair" ->
            LET result == PyList(<<GetItem(arguments, V),
                                   IF X \in Keys(arguments) THEN GetItem(arguments, X)
                                   ELSE None>>)
            IN Return(result, result, 1)

\* A variant of toolfn(**arguments) that fills a missing parameter with
\* None and drops unknown keys instead of raising.
call_function_defaulting(fn, arguments) ==
    LET known == IF IsDict(arguments)
                 THEN SelectSeq(arguments.d, LAMBDA p : p[1] \in fn.required \cup fn.optional)
                 ELSE <<>>
        filled == IF V \in {known[k][1] : k \in 1..Len(known)}
                  THEN PyDict(known) ELSE PyDict(Append(known, <<V, None>>))
    IN IF fn.is_async THEN Return(Coroutine(fn, filled), None, 0)
       ELSE run_body(fn, filled)

\* toolfn(**arguments): TypeError when the arguments do not bind; an async
\* function returns its coroutine object, its body not yet run.
call_function(fn, arguments) ==
    IF ~Binds(fn, arguments) THEN Raise("TypeError", 0)
    ELSE IF fn.is_async THEN Return(Coroutine(fn, arguments), None, 0)
    ELSE run_body(fn, arguments)

\* await coroutine
await(coro) == run_body(coro.coroutine, coro.arguments)

\* asyncio.run(coroutine): refuses to start inside a running event loop.
asyncio_run(coro, running_loop) ==
    IF running_loop THEN Raise("RuntimeError", 0) ELSE await(coro)

\* ======================================================================
\* dais_sdk.tool.execute: the execution dispatcher
\* ======================================================================

\* A variant of _arguments_normalizer that takes text it cannot parse for
\* an empty mapping.
_arguments_normalizer_lenient(arguments) ==
    IF IsStr(arguments)
    THEN LET parsed == json_loads(arguments.s)
         IN IF parsed.ok THEN Returned(parsed.value) ELSE Returned(PyDict(<<>>))
    ELSE IF IsDict(arguments) THEN Returned(arguments)
    ELSE Raised("AssertionError")

\* _arguments_normalizer(arguments): text is parsed by json.loads, whose
\* JSONDecodeError propagates and whose result is returned whatever JSON
\* value it is; a mapping is returned as it is.
_arguments_normalizer(arguments) ==
    IF IsStr(arguments)
    THEN LET parsed == json_loads(arguments.s)
         IN IF parsed.ok THEN Returned(parsed.value) ELSE Raised("JSONDecodeError")
    ELSE IF IsDict(arguments) THEN Returned(arguments)
    ELSE Raised("AssertionError")

\* _result_normalizer(result): a str as it is, anything else through
\* json.dumps(result, ensure_ascii=False), which raises TypeError on a
\* value it cannot serialize.
_result_normalizer(result) ==
    IF IsStr(result) THEN Returned(result)
    ELSE IF Serializable(result) THEN Returned(PyStr(json_dumps(result, FALSE)))
    ELSE Raised("TypeError")

\* f"{type(tool)}"
type_repr(tool) ==
    <<"<", "c", "l", "a", "s", "s", " ", "'">>
    \o (CASE tool.kind = "int" -> <<"i", "n", "t">>
           [] tool.kind = "str" -> <<"s", "t", "r">>
           [] tool.kind = "list" -> <<"l", "i", "s", "t">>
           [] tool.kind = "NoneType" -> <<"N", "o", "n", "e", "T", "y", "p", "e">>
           [] tool.kind = "other" -> <<"d", "i", "c", "t">>)
    \o <<"'", ">">>

\* A variant of the fallback that returns a message instead of raising.
invalid_tool_type_returned(tool) ==
    Return(PyStr(<<"I", "n", "v", "a", "l", "i", "d", " ", "t", "o", "o", "l", " ", "t", "y", "p", "e", ":", " ">> \o type_repr(tool)), None, 0)

\* The singledispatch fallback of both forms:
\* raise ValueError(f"Invalid tool type: {type(tool)}")
invalid_tool_type(tool) ==
    [raised |-> "ValueError", error |-> None, value |-> None, returned |-> None,
     invoked |-> 0, message |-> <<"I", "n", "v", "a", "l", "i", "d", " ", "t", "o", "o", "l", " ", "t", "y", "p", "e", ":", " ">> \o type_repr(tool)]

\* The callable a supported tool is executed through.
Supported(tool) == tool.kind \in {"function", "method", "tooldef"}
Target(tool) == IF tool.kind = "tooldef" THEN tool.execute ELSE tool

\* return _result_normalizer(result)
normalized_result(result) ==
    IF result.raised # "none" THEN result
    ELSE LET payload == _result_normalizer(result.value)
         IN IF payload.raised # "none" THEN Raise(payload.raised, result.invoked)
            ELSE Return(payload.value, result.returned, result.invoked)

\* dict | dict of two mappings: the keys of under, then the new keys of
\* over, every key of over with over's value.
RECURSIVE MergeUnder(_, _)
MergeUnder(under, over) ==
    IF over = <<>> THEN under
    ELSE MergeUnder(DictSet(under, Head(over)[1], Head(over)[2]), Tail(over))

\* A variant of execute_tool_sync that calls a ToolDef's callable with its
\* static defaults merged under the arguments.
execute_tool_sync_merging(tool, arguments, running_loop) ==
    IF ~Supported(tool) THEN Raise("ValueError", 0)
    ELSE LET toolfn == Target(tool)
             normalized == _arguments_normalizer(arguments)
             merged == IF HasDefaults(tool) /\ IsDict(normalized.value)
                       THEN PyDict(MergeUnder(tool.defaults.d, normalized.value.d))
                       ELSE normalized.value
         IN IF normalized.raised # "none" THEN Raise(normalized.raised, 0)
            ELSE LET called == call_function(toolfn, merged)
                 IN normalized_result(
                        IF toolfn.is_async /\ called.raised = "none"
                        THEN asyncio_run(called.value, running_loop)
                        ELSE called)

\* execute_tool_sync(tool, arguments), called with or without an event
\* loop running in the calling thread.
execute_tool_sync(tool, arguments, running_loop) ==
    IF ~Supported(tool) THEN invalid_tool_type(tool)
    ELSE LET toolfn == Target(tool)
             normalized == _arguments_normalizer(arguments)
         IN IF normalized.raised # "none" THEN Raise(normalized.raised, 0)
            ELSE LET called == call_function(toolfn, normalized.value)
                 IN normalized_result(
                        IF toolfn.is_async /\ called.raised = "none"
                        THEN asyncio_run(called.value, running_loop)
                        ELSE called)

\* await execute_tool(tool, arguments)
execute_tool(tool, arguments) ==
    IF ~Supported(tool) THEN invalid_tool_type(tool)
    ELSE LET toolfn == Target(tool)
             normalized == _arguments_normalizer(arguments)
         IN IF normalized.raised # "none" THEN Raise(normalized.raised, 0)
            ELSE LET called == call_function(toolfn, normalized.value)
                 IN normalized_result(
                        IF toolfn.is_async /\ called.raised = "none"
                        THEN await(called.value)
                        ELSE called)

\* The mutable objects execute is handed: the caller's arguments (a dict,
\* or an immutable str) and the static defaults of the ToolDef.
Objects(tool, arguments) ==
    [arguments |-> arguments,
     defaults |-> IF HasDefaults(tool) THEN tool.defaults ELSE None]

\* The object _arguments_normalizer returns: the dict it was given, or
\* the new dict json.loads built.
normalized_ref(arguments) == IF IsStr(arguments) THEN "parsed" ELSE "arguments"

\* A variant of the keyword call that first merges the static defaults
\* into the arguments object, in place.
keyword_call_merging_in_place(objects, ref) ==
    IF ref = "arguments" /\ objects.defaults # None /\ IsDict(objects.arguments)
    THEN [objects EXCEPT
              !.arguments = PyDict(MergeUnder(objects.defaults.d, objects.arguments.d))]
    ELSE objects

\* toolfn(**arguments): keyword unpacking copies the items of the mapping
\* into a new dict for the callee; no object the caller holds is written.
keyword_call(objects, ref) == objects

\* The objects after execute_tool_sync / execute_tool returned or raised.
objects_after_execute(tool, arguments) ==
    IF ~Supported(tool) \/ _arguments_normalizer(arguments).raised # "none"
    THEN Objects(tool, arguments)
    ELSE keyword_call(Objects(tool, arguments), normalized_ref(arguments))

\* The request after execute: the caller's objects as execute left them.
AfterExecute(entry) ==
    LET objects == objects_after_execute(call.tool, call.arguments)
    IN [call EXCEPT !.entry = entry,
                    !.arguments = objects.arguments,
                    !.tool = IF HasDefaults(call.tool)
                             THEN [call.tool EXCEPT !.defaults = objects.defaults]
                             ELSE call.tool]

\* ======================================================================
\* liteai_sdk.LLM._execute_tool_calls: the tool calls of one assistant
\* message, executed in order into tool messages
\* ======================================================================

ToolMessage(tool_call_id, content) == [tool_call_id |-> tool_call_id, content |-> content]
ToolCall(id, name, arguments) ==
    [id |-> id, function |-> [name |-> name, arguments |-> arguments]]

callable(tool) == tool.kind \in {"function", "method"}

find_target_tool_last(tool_fns, tool_name) ==
    LET target_tools == SelectSeq(tool_fns, LAMBDA tool : PyStr(tool.name) = tool_name)
    IN IF Len(target_tools) > 0 THEN target_tools[Len(target_tools)] ELSE None

find_target_tool(tool_fns, tool_name) ==
    LET target_tools == SelectSeq(tool_fns, LAMBDA tool : PyStr(tool.name) = tool_name)
    IN IF Len(target_tools) > 0 THEN target_tools[1] ELSE None

\* The loop over tool_calls; acc is the result list so far (with what each
\* tool returned and how many bodies ran).
RECURSIVE execute_tool_calls_from(_, _, _)
execute_tool_calls_from(tool_fns, tool_calls, acc) ==
    IF tool_calls = <<>> THEN acc
    ELSE LET tool_call == Head(tool_calls)
             id == tool_call.id
             function_name == tool_call.function.name
             function_arguments == tool_call.function.arguments
             target_tool == find_target_tool(tool_fns, function_name)
         IN IF id = None \/ function_name = None \/ function_arguments = None
            THEN execute_tool_calls_from(tool_fns, Tail(tool_calls), acc)
            ELSE IF target_tool = None
            THEN execute_tool_calls_from(tool_fns, Tail(tool_calls), acc)
            ELSE LET tool_call_args == json_loads(function_arguments.s)
                     tool_call_ret == call_function(target_tool, tool_call_args.value)
                     ran == acc.invoked + tool_call_ret.invoked
                 IN IF ~tool_call_args.ok THEN Raise("JSONDecodeError", acc.invoked)
                    ELSE IF tool_call_ret.raised # "none"
                    THEN Raise(tool_call_ret.raised, ran)
                    ELSE IF ~Serializable(tool_call_ret.value)
                    THEN Raise("TypeError", ran)
                    ELSE execute_tool_calls_from(tool_fns, Tail(tool_calls),
                             Return(Append(acc.value,
                                           ToolMessage(id, PyStr(json_dumps(tool_call_ret.value, TRUE)))),
                                    Append(acc.returned, tool_call_ret.value),
                                    ran))

\* A variant of _execute_tool_calls in which every tool message carries the
\* id read from the first tool call of the turn.
_execute_tool_calls_first_id(tools, tool_calls) ==
    LET r == execute_tool_calls_from(SelectSeq(tools, callable), tool_calls,
                                     Return(<<>>, <<>>, 0))
    IN IF r.raised # "none" THEN r
       ELSE [r EXCEPT !.value = [m \in 1..Len(r.value) |->
                                    ToolMessage(tool_calls[1].id, r.value[m].content)]]

_execute_tool_calls(tools, tool_calls) ==
    execute_tool_calls_from(SelectSeq(tools, callable), tool_calls,
                            Return(<<>>, <<>>, 0))

\* ------------------------------------------------- the dispatcher's inputs

Q == "\""
\* Values a tool is given and returns.
ArgValues ==
    {None, PyBool(TRUE), PyBool(FALSE), PyInt(0), PyInt(-7), PyInt(12),
     PyStr(<<>>), PyStr(<<"a">>), PyStr(<<"1">>), PyStr(<<"a", Q, NonAscii, "\\">>),
     PyStr(<<"[", "]">>), PyList(<<>>), PyList(<<PyInt(1), PyStr(<<"a">>), None>>),
     PyDict(<<>>), PyDict(<<<<<<"k">>, PyInt(1)>>>>),
     PyDict(<<<<<<"k">>, PyList(<<PyStr(<<NonAscii>>)>>)>>, <<<<"j">>, PyBool(TRUE)>>>>)}

\* Arguments as a mapping: v alone, nothing, v with an unknown x.
Mappings ==
    {PyDict(<<<<V, val>>>>) : val \in ArgValues}
    \cup {PyDict(<<>>), PyDict(<<<<V, PyInt(1)>>, <<X, PyInt(2)>>>>)}

\* Arguments as JSON text of an object, as a model emits it.
ObjectTexts ==
    {PyStr(json_dumps(m, ensure_ascii)) : m \in Mappings, ensure_ascii \in BOOLEAN}
    \cup {PyStr(<<"{", Q, "v", Q, ":", "5", "}">>),
          PyStr(<<" ", "{", " ", Q, "v", Q, " ", ":", " ", Q, "a", Q, " ", "}", " ">>)}

\* JSON text of something other than an object.
NonObjectTexts ==
    {PyStr(<<"[", "1", "]">>), PyStr(<<"5">>), PyStr(<<"n", "u", "l", "l">>),
     PyStr(<<Q, "v", Q>>)}

\* Text that is not JSON.
InvalidTexts ==
    {PyStr(<<"i", "n", "v", "a", "l", "i", "d">>), PyStr(<<>>), PyStr(<<"{">>),
     PyStr(<<"{", Q, "v", Q, ":", "}">>), PyStr(<<"{", Q, "v", Q, ":", "1", ",", "}">>),
     PyStr(<<"{", "v", ":", "1", "}">>), PyStr(<<"{", "}", "}">>)}

Arguments == Mappings \cup ObjectTexts \cup NonObjectTexts \cup InvalidTexts

\* One request: the tool, the raw arguments, whether the calling thread
\* already runs an event loop, and (once dispatched) the entry point used.
Calls ==
    [entry : {"none"}, tool : Tools, arguments : Arguments, running_loop : BOOLEAN]

\* --------------------------------------------------- the dispatcher's steps

ExecInit ==
    /\ call \in Calls
    /\ outcome = None
    /\ invoked = 0
    /\ collector = NewCollector
    /\ message = None
    /\ last_op = "none"
    /\ raised = "none"
    /\ fed = <<>>
    /\ manager = None
    /\ log = <<>>
    /\ handled = <<>>
    /\ request = None
    /\ listings = <<>>
    /\ prepared = None
    /\ found = None
    /\ configured = None
    /\ loop = None
    /\ driver = None

\* The host calls execute_tool_sync(tool, arguments).
ExecuteToolSync ==
    /\ call.entry = "none"
    /\ LET r == execute_tool_sync(call.tool, call.arguments, call.running_loop)
       IN /\ outcome' = r
          /\ invoked' = invoked + r.invoked
    /\ call' = AfterExecute("execute_tool_sync")
    /\ UNCHANGED <<asm_vars, handler_vars, registry_vars, aux_vars>>

\* The host awaits execute_tool(tool, arguments), on its event loop.
ExecuteTool ==
    /\ call.entry = "none"
    /\ call.running_loop
    /\ LET r == execute_tool(call.tool, call.arguments)
       IN /\ outcome' = r
          /\ invoked' = invoked + r.invoked
    /\ call' = AfterExecute("execute_tool")
    /\ UNCHANGED <<asm_vars, handler_vars, registry_vars, aux_vars>>

\* The LLM client resolves the one tool call of an assistant message that
\* names the tool, with the tool as its tool list.
ExecuteToolCalls ==
    /\ call.entry = "none"
    /\ IsStr(call.arguments)
    /\ LET r == _execute_tool_calls(<<call.tool>>,
                    <<ToolCall(PyStr(<<"1">>), PyStr(call.tool.name), call.arguments)>>)
       IN /\ outcome' = r
          /\ invoked' = invoked + r.invoked
    /\ call' = [call EXCEPT !.entry = "_execute_tool_calls"]
    /\ UNCHANGED <<asm_vars, handler_vars, registry_vars, aux_vars>>

ExecNext ==
    \/ ExecuteToolSync
    \/ ExecuteTool
    \/ ExecuteToolCalls

ExecSpec == ExecInit /\ [][ExecNext]_vars

\* dais_sdk.types.exceptions: what the typed tool exceptions carry.
ToolArgumentDecodeError(tool_name, arguments, raw_error) ==
    [tool_name |-> tool_name, arguments |-> arguments, raw_error |-> raw_error]
ToolExecutionError(tool, arguments, raw_error) ==
    [tool |-> tool, arguments |-> arguments, raw_error |-> raw_error]

\* ------------------------------------------------ dispatcher properties

Dispatched == call.entry # "none"
ViaExecute == call.entry \in {"execute_tool_sync", "execute_tool"}

\* The (tool return value, tool-result payload) pairs of a request that
\* ended normally.
Payloads ==
    IF call.entry = "_execute_tool_calls"
    THEN {<<outcome.returned[k], outcome.value[k].content>> : k \in 1..Len(outcome.value)}
    ELSE {<<outcome.returned, outcome.value>>}

\* The mapping the tool is called with, for arguments that are a mapping
\* or text that decodes.
PassedArguments ==
    IF IsStr(call.arguments) THEN json_loads(call.arguments.s).value ELSE call.arguments

\* A mapping the call cannot bind: a required parameter is missing, or a
\* key is not a parameter.
MissingOrUnexpected(fn, arguments) ==
    \/ \E param \in fn.required : \A k \in 1..Len(arguments.d) : arguments.d[k][1] # param
    \/ \E k \in 1..Len(arguments.d) : arguments.d[k][1] \notin fn.required \cup fn.optional

\* C8: on every execution path that turns a tool's return value into a
\* tool-result payload, the payload is a string; a string return value is
\* passed through unchanged (no quotes added), and any other value becomes
\* JSON text that a JSON decoder parses back to the original value.
C8_ResultNormalization ==
    (Dispatched /\ outcome.raised = "none") =>
        \A p \in Payloads :
            /\ IsStr(p[2])
            /\ IsStr(p[1]) => p[2] = p[1]
            /\ ~IsStr(p[1]) => LET parsed == json_loads(p[2].s)
                               IN parsed.ok /\ parsed.value = p[1]

\* C9 as claimed: execute (blocking or suspending form) given text that is
\* not valid JSON fails with a ToolArgumentDecodeError carrying the tool
\* name, the raw argument text and the underlying parse failure, and the
\* tool body is never invoked.
C9_DecodeErrorIsWrapped ==
    (ViaExecute /\ Supported(call.tool) /\ call.arguments \in InvalidTexts) =>
        /\ outcome.raised = "ToolArgumentDecodeError"
        /\ outcome.error = ToolArgumentDecodeError(call.tool.name, call.arguments,
                                                   "JSONDecodeError")
        /\ invoked = 0

\* C9 as amended: execute (blocking or suspending form) given text that is
\* not valid JSON fails with json's own JSONDecodeError, not wrapped in a
\* tool exception and carrying no tool name, and the tool body is never
\* invoked.
C9_DecodeErrorPropagates ==
    (ViaExecute /\ Supported(call.tool) /\ call.arguments \in InvalidTexts) =>
        /\ outcome.raised = "JSONDecodeError"
        /\ outcome.error = None
        /\ outcome.value = None
        /\ invoked = 0

C9_Witness ==
    /\ call.entry = "execute_tool"
    /\ call.tool = fail
    /\ call.arguments = PyStr(<<"{">>)
    /\ outcome.raised = "JSONDecodeError"
    /\ invoked = 0

\* C10 as claimed: a failure raised while invoking the tool (an exception
\* from the tool body, a missing required argument, an unexpected
\* argument) leaves execute, in both forms, as a ToolExecutionError
\* carrying the tool, the raw arguments and the original cause; never as
\* the original exception type, never as a normal result.
C10_FailureIsWrapped ==
    (ViaExecute /\ Supported(call.tool) /\ call.arguments \notin InvalidTexts
                /\ IsDict(PassedArguments)) =>
        LET fn == Target(call.tool)
        IN /\ MissingOrUnexpected(fn, PassedArguments) =>
                  /\ outcome.raised = "ToolExecutionError"
                  /\ outcome.error = ToolExecutionError(call.tool, call.arguments, "TypeError")
           /\ (fn.body = "fail" /\ invoked = 1) =>
                  /\ outcome.raised = "ToolExecutionError"
                  /\ outcome.error = ToolExecutionError(call.tool, call.arguments, "ValueError")

\* C10 as amended: a failure raised while invoking the tool leaves
\* execute, in both forms, as the original exception itself, not wrapped
\* in a tool exception: TypeError, with the body not run, when the
\* arguments miss a required parameter or carry an unexpected one; the
\* body's own exception when the body raises.  None is turned into a
\* normal result.
C10_FailurePropagates ==
    (ViaExecute /\ Supported(call.tool) /\ call.arguments \notin InvalidTexts
                /\ IsDict(PassedArguments)) =>
        LET fn == Target(call.tool)
        IN /\ MissingOrUnexpected(fn, PassedArguments) =>
                  /\ outcome.raised = "TypeError"
                  /\ outcome.error = None
                  /\ outcome.value = None
                  /\ invoked = 0
           /\ (fn.body = "fail" /\ invoked = 1) =>
                  /\ outcome.raised = "ValueError"
                  /\ outcome.error = None
                  /\ outcome.value = None

C10_Witness ==
    /\ call.entry = "execute_tool_sync"
    /\ call.tool = echo
    /\ call.arguments = PyStr(<<"{", "}">>)
    /\ outcome.raised = "TypeError"
    /\ invoked = 0

\* ======================================================================
\* One assistant turn: a tool list (the registry of the request) and the
\* tool calls the model asked for, resolved by LLM._execute_tool_calls.
\* ======================================================================

\* Number of tool calls one assistant turn carries at most.
MaxCalls == 2

\* dais_sdk.types.exceptions.ToolDoesNotExistError(tool_name)
ToolDoesNotExistError(tool_name) == [tool_name |-> tool_name]

\* Functions that share a name or differ from one only by case or prefix.
\* def echo(v=None): raise ValueError    (a second function named echo)
echo_twin == ToolFn("function", echo.name, FALSE, {}, {V}, "fail")
\* def Echo(v=None): raise ValueError
echo_capital == ToolFn("function", <<"E", "c", "h", "o">>, FALSE, {}, {V}, "fail")
\* def A__t(v): return v
A__t == ToolFn("function", <<"A", "_", "_", "t">>, FALSE, {V}, {}, "echo")
\* def B__t(v=None): raise ValueError
B__t == ToolFn("function", <<"B", "_", "_", "t">>, FALSE, {}, {V}, "fail")

\* The tool lists of a request.
Registries ==
    {<<>>,
     <<echo, fail>>,
     <<echo, echo_twin>>,
     <<echo_twin, fail, echo>>,
     <<echo_capital, echo>>,
     <<A__t, B__t>>,
     <<B__t, echo_method, A__t>>,
     <<ToolDef(echo.name, echo), RawToolDef(fail.name), echo_method>>}

\* The names a model may ask for: names of tools, a prefix of one, one
\* in another case, one no tool has.
RequestedNames ==
    {echo.name, fail.name, echo_capital.name, A__t.name, B__t.name, echo_method.name,
     <<"e", "c", "h">>, <<"n", "o", "p", "e">>}

\* The call with id k asks for v = k, so a result tells which call made it.
IdOf(k) == PyStr(<<Digits[k + 1]>>)
ArgumentsOf(k) == PyStr(json_dumps(PyDict(<<<<V, PyInt(k)>>>>), TRUE))

\* The orders in which calls with distinct ids out of 1..MaxCalls arrive.
Orders ==
    UNION { {o \in [1..n -> 1..MaxCalls] : \A i, j \in 1..n : i # j => o[i] # o[j]}
            : n \in 1..MaxCalls }

\* The tool calls of a turn: an order of ids, a requested name for each.
ToolCallLists ==
    UNION { {[k \in 1..Len(o) |-> ToolCall(IdOf(o[k]), PyStr(names[k]), ArgumentsOf(o[k]))]
             : names \in [1..Len(o) -> RequestedNames]}
            : o \in Orders }

Turns == [entry : {"none"}, tools : Registries, tool_calls : ToolCallLists]

TurnInit ==
    /\ call \in Turns
    /\ outcome = None
    /\ invoked = 0
    /\ collector = NewCollector
    /\ message = None
    /\ last_op = "none"
    /\ raised = "none"
    /\ fed = <<>>
    /\ manager = None
    /\ log = <<>>
    /\ handled = <<>>
    /\ request = None
    /\ listings = <<>>
    /\ prepared = None
    /\ found = None
    /\ configured = None
    /\ loop = None
    /\ driver = None

\* The LLM client resolves the tool calls of the assistant message.
ExecuteTurn ==
    /\ call.entry = "none"
    /\ LET r == _execute_tool_calls(call.tools, call.tool_calls)
       IN /\ outcome' = r
          /\ invoked' = invoked + r.invoked
    /\ call' = [call EXCEPT !.entry = "_execute_tool_calls"]
    /\ UNCHANGED <<asm_vars, handler_vars, registry_vars, aux_vars>>

TurnNext == ExecuteTurn

TurnSpec == TurnInit /\ [][TurnNext]_vars

\* The requested name is the name of no tool of the request.
Unresolvable(tool_call) ==
    \A k \in 1..Len(call.tools) : PyStr(call.tools[k].name) # tool_call.function.name

\* C11: a tool call naming a tool that does not resolve in the registry of
\* the request makes dispatch fail with a ToolDoesNotExistError that
\* identifies the requested name; such a call never ends with no result
\* and no error.
C11_UnresolvableToolRaises ==
    (call.entry = "_execute_tool_calls") =>
        /\ Unresolvable(call.tool_calls[1]) =>
               /\ outcome.raised = "ToolDoesNotExistError"
               /\ outcome.error = ToolDoesNotExistError(call.tool_calls[1].function.name)
        /\ \A k \in 1..Len(call.tool_calls) :
               Unresolvable(call.tool_calls[k]) =>
                   \/ outcome.raised # "none"
                   \/ \E m \in 1..Len(outcome.value) :
                          outcome.value[m].tool_call_id = call.tool_calls[k].id

\* ------------------------------------------------------- static defaults

\* The arguments arrive as a mapping (given as one, or decoded from text).
MappingPassed == call.arguments \notin InvalidTexts /\ IsDict(PassedArguments)

\* What the tool returns when called with a mapping it can bind.
ResultOn(fn, arguments) ==
    LET at(key) == LET hits == SelectSeq(arguments.d, LAMBDA p : p[1] = key)
                   IN IF hits = <<>> THEN None ELSE hits[Len(hits)][2]
    IN IF fn.body = "pair" THEN PyList(<<at(V), at(X)>>) ELSE at(V)

\* C12 as claimed: executing a tool definition that carries static
\* defaults invokes the tool with the union of the defaults and the call
\* arguments; a key present in both takes the call argument's value, a
\* default key absent from the call arguments is supplied with its default.
C12_DefaultsMergedUnder ==
    (ViaExecute /\ HasDefaults(call.tool) /\ MappingPassed) =>
        LET fn == call.tool.execute
            merged == PyDict(MergeUnder(call.tool.defaults.d, PassedArguments.d))
        IN ~MissingOrUnexpected(fn, merged) =>
               /\ invoked = 1
               /\ outcome.raised = "none"
               /\ outcome.returned = ResultOn(fn, merged)

\* C12 as amended: executing a tool definition that carries static
\* defaults invokes the tool with exactly the call arguments; the defaults
\* are not merged in.  A key present in both takes the call argument's
\* value; a default key absent from the call arguments is not supplied: the
\* parameter keeps the callable's own default, and the call fails with
\* TypeError, the body not run, when the parameter is required.
C12_DefaultsNotMerged ==
    (ViaExecute /\ HasDefaults(call.tool) /\ MappingPassed) =>
        LET fn == call.tool.execute
        IN IF MissingOrUnexpected(fn, PassedArguments)
           THEN outcome.raised = "TypeError" /\ invoked = 0
           ELSE /\ invoked = 1
                /\ outcome.raised = "none"
                /\ outcome.returned = ResultOn(fn, PassedArguments)

C12_Witness ==
    /\ call.entry = "execute_tool_sync"
    /\ call.tool = ToolDefWithDefaults(pair.name, pair, PyDict(<<<<X, PyInt(9)>>>>))
    /\ call.arguments = PyDict(<<<<V, PyInt(12)>>>>)
    /\ outcome.raised = "none"
    /\ outcome.returned = PyList(<<PyInt(12), None>>)

\* C13: given arguments that are already a mapping, normalization returns
\* that same mapping, and after execute returned or failed the caller's
\* mapping has exactly the keys and values it had before the call; the
\* tool's static defaults are unchanged as well.
C13_Step ==
    (call.entry = "none" /\ call'.entry \in {"execute_tool_sync", "execute_tool"}
         /\ IsDict(call.arguments)) =>
        /\ normalized_ref(call.arguments) = "arguments"
        /\ _arguments_normalizer(call.arguments) = Returned(call.arguments)
        /\ call'.arguments = call.arguments
        /\ call'.tool = call.tool
C13_ArgumentsNotMutated == [][C13_Step]_vars

C13_Witness ==
    /\ call.entry = "execute_tool"
    /\ call.tool = ToolDefWithDefaults(pair.name, pair, PyDict(<<<<V, PyInt(5)>>, <<X, PyInt(9)>>>>))
    /\ call.arguments = PyDict(<<>>)
    /\ outcome.raised = "TypeError"

\* C14: the blocking form, called on an asynchronous tool from a thread
\* that is already running an event loop, runs the tool to completion on
\* an isolated execution context and returns its result; it does not fail
\* because a loop is already running on the calling thread.
C14_BlockingBridge ==
    (call.entry = "execute_tool_sync" /\ Supported(call.tool) /\ call.running_loop
         /\ Target(call.tool).is_async /\ MappingPassed
         /\ ~MissingOrUnexpected(Target(call.tool), PassedArguments)) =>
        /\ invoked = 1
        /\ outcome.raised # "RuntimeError"
        /\ Target(call.tool).body = "echo" =>
               /\ outcome.raised = "none"
               /\ outcome.returned = ResultOn(Target(call.tool), PassedArguments)

\* ---------------------------------------------------- result attribution

\* The payload the call's own arguments produce from a tool that returns
\* its argument v.
OwnContent(tool_call) ==
    PyStr(json_dumps(ResultOn(echo, json_loads(tool_call.function.arguments.s).value), TRUE))

\* The tool messages that carry the id of the k-th tool call.
MessagesOf(k) ==
    {m \in 1..Len(outcome.value) : outcome.value[m].tool_call_id = call.tool_calls[k].id}

\* C15: whatever the order in which the tool calls of a turn are
\* dispatched, every tool message produced carries the id of exactly the
\* call whose tool and arguments produced its content; no result is
\* attached to another call's id and no call produces more than one result.
C15_ResultAttribution ==
    (call.entry = "_execute_tool_calls" /\ outcome.raised = "none") =>
        /\ \A m \in 1..Len(outcome.value) :
               \E k \in 1..Len(call.tool_calls) :
                   /\ m \in MessagesOf(k)
                   /\ ~Unresolvable(call.tool_calls[k])
                   /\ outcome.value[m].content = OwnContent(call.tool_calls[k])
        /\ \A k \in 1..Len(call.tool_calls) : Cardinality(MessagesOf(k)) <= 1

C15_Witness ==
    /\ call.entry = "_execute_tool_calls"
    /\ outcome.raised = "none"
    /\ Len(call.tool_calls) = 2
    /\ call.tool_calls[1].id = IdOf(2)
    /\ call.tool_calls[2].id = IdOf(1)
    /\ outcome.value = <<ToolMessage(IdOf(2), PyStr(<<"2">>)), ToolMessage(IdOf(1), PyStr(<<"1">>))>>

\* ======================================================================
\* Tool exception handlers: ToolExceptionHandlerManager
\* (dais_sdk/tool/execute.py) over the exceptions of
\* dais_sdk/types/exceptions.py.
\* ======================================================================

\* Number of handle(e) calls the host makes at most.
MaxHandled == 3

\* __name__ of the exception classes; a class is identified by its name.
LlmToolExceptionName == <<"L", "l", "m", "T", "o", "o", "l", "E", "x", "c", "e", "p", "t", "i", "o", "n">>
ToolDoesNotExistErrorName == <<"T", "o", "o", "l", "D", "o", "e", "s", "N", "o", "t", "E", "x", "i", "s", "t", "E", "r", "r", "o", "r">>
ToolArgumentDecodeErrorName == <<"T", "o", "o", "l", "A", "r", "g", "u", "m", "e", "n", "t", "D", "e", "c", "o", "d", "e", "E", "r", "r", "o", "r">>
ToolExecutionErrorName == <<"T", "o", "o", "l", "E", "x", "e", "c", "u", "t", "i", "o", "n", "E", "r", "r", "o", "r">>

ExceptionTypes ==
    {LlmToolExceptionName, ToolDoesNotExistErrorName,
     ToolArgumentDecodeErrorName, ToolExecutionErrorName}

\* type(e).__name__: the class is told by the attributes its __init__ sets.
type_name(e) ==
    IF DOMAIN e = {"tool_name"} THEN ToolDoesNotExistErrorName
    ELSE IF "tool" \in DOMAIN e THEN ToolExecutionErrorName
    ELSE ToolArgumentDecodeErrorName

\* repr() of what a tool exception carries.  A str is quoted with ' (the
\* texts used below hold no quote and no backslash); a function shows its
\* name and its address, a fixed text for one object; a raw exception
\* shows its class and its arguments.
repr_str(chars) == <<"'">> \o chars \o <<"'">>
repr_function(fn) == <<"<", "f", "u", "n", "c", "t", "i", "o", "n", " ">> \o fn.name \o <<" ", "a", "t", " ", "0", "x", "7", "f", "0", "1", ">">>
repr_error(raw_error) ==
    CASE raw_error = "JSONDecodeError" ->
             <<"J", "S", "O", "N", "D", "e", "c", "o", "d", "e", "E", "r", "r", "o", "r", "(", "'", "E", "x", "p", "e", "c", "t", "i", "n", "g", " ", "v", "a", "l", "u", "e", ":", " ", "l", "i", "n", "e", " ", "1", " ", "c", "o", "l", "u", "m", "n", " ", "1", " ", "(", "c", "h", "a", "r", " ", "0", ")", "'", ")">>
      [] raw_error = "ValueError" -> <<"V", "a", "l", "u", "e", "E", "r", "r", "o", "r", "(", ")">>

\* str(e).  No __init__ of these classes calls super().__init__, so e.args
\* is what BaseException.__new__ kept, the constructor's arguments: str(e)
\* is the one argument itself, or repr() of the tuple of several.
str(e) ==
    IF DOMAIN e = {"tool_name"} THEN e.tool_name
    ELSE <<"(">>
         \o (IF "tool" \in DOMAIN e THEN repr_function(e.tool) ELSE repr_str(e.tool_name))
         \o <<",", " ">> \o repr_str(e.arguments.s)
         \o <<",", " ">> \o repr_error(e.raw_error)
         \o <<")">>

\* Handlers a host registers:
\*   def custom(e): return f"Custom: {type(e).__name__}"
\*   def raising(e): raise ValueError
custom == [handler |-> "custom"]
raising == [handler |-> "raising"]
Handlers == {custom, raising}

\* handler(e)
call_handler(handler, e) ==
    IF handler = raising THEN Raised("ValueError")
    ELSE Returned(PyStr(<<"C", "u", "s", "t", "o", "m", ":", " ">> \o type_name(e)))

\* ToolExceptionHandlerManager(): self._handlers = {}
NewManager == [_handlers |-> <<>>]

\* A variant of get_handler that falls back on the handler of the base
\* class, as an isinstance test would.
get_handler_by_isinstance(m, exception_type) ==
    IF exception_type \in DOMAIN m._handlers THEN m._handlers[exception_type]
    ELSE IF LlmToolExceptionName \in DOMAIN m._handlers
    THEN m._handlers[LlmToolExceptionName]
    ELSE None

\* manager.get_handler(exception_type): self._handlers.get(exception_type)
get_handler(m, exception_type) ==
    IF exception_type \in DOMAIN m._handlers THEN m._handlers[exception_type]
    ELSE None

\* A variant of set_handler that keeps a handler already set (setdefault).
set_handler_keeping_first(m, exception_type, handler) ==
    [m EXCEPT !._handlers = @ @@ (exception_type :> handler)]

\* manager.set_handler(exception_type, handler)
set_handler(m, exception_type, handler) ==
    [m EXCEPT !._handlers = (exception_type :> handler) @@ @]

\* @manager.register(exception_type) applied to handler
register(m, exception_type, handler) == set_handler(m, exception_type, handler)

\* logger.warning(msg, exc_info=e)
Warning(msg, exc_info) == [level |-> "warning", msg |-> msg, exc_info |-> exc_info]

\* One invocation of a handler: the handler and the exception it got.
HandlerCall(handler, argument) == [handler |-> handler, argument |-> argument]

\* What a handle(e) call did: how it ended, the records it logged and the
\* handler invocations it made.
Handled(raised_, value, warnings, calls) ==
    [raised |-> raised_, value |-> value, warnings |-> warnings, calls |-> calls]

handle_silently(m, e) ==
    LET handler == get_handler(m, type_name(e))
    IN IF handler = None
       THEN Handled("none", PyStr(<<"U", "n", "h", "a", "n", "d", "l", "e", "d", " ", "t", "o", "o", "l", " ", "e", "x", "c", "e", "p", "t", "i", "o", "n">>), <<>>, <<>>)
       ELSE LET r == call_handler(handler, e)
            IN Handled(r.raised, r.value, <<>>, <<HandlerCall(handler, e)>>)

\* manager.handle(e)
handle(m, e) ==
    LET handler == get_handler(m, type_name(e))
    IN IF handler = None
       THEN Handled("none",
                    PyStr(<<"U", "n", "h", "a", "n", "d", "l", "e", "d", " ", "t", "o", "o", "l", " ", "e", "x", "c", "e", "p", "t", "i", "o", "n", " ", "|", " ">> \o type_name(e)
                          \o <<":", " ">> \o str(e)),
                    <<Warning(<<"U", "n", "h", "a", "n", "d", "l", "e", "d", " ", "t", "o", "o", "l", " ", "e", "x", "c", "e", "p", "t", "i", "o", "n", ":", " ">> \o type_name(e), e)>>,
                    <<>>)
       ELSE LET r == call_handler(handler, e)
            IN Handled(r.raised, r.value, <<>>, <<HandlerCall(handler, e)>>)

\* The tool exceptions the dispatcher hands over.
Unknown == <<"u", "n", "k", "n", "o", "w", "n", "_", "t", "o", "o", "l">>
ToolExceptions ==
    { ToolDoesNotExistError(Unknown),
      ToolArgumentDecodeError(echo.name, PyStr(<<"{", "b", "a", "d">>), "JSONDecodeError"),
      ToolExecutionError(fail, PyStr(<<"{", "}">>), "ValueError") }

\* ------------------------------------------------ handler-manager steps

HandlerInit ==
    /\ manager = NewManager
    /\ log = <<>>
    /\ handled = <<>>
    /\ collector = NewCollector
    /\ message = None
    /\ last_op = "none"
    /\ raised = "none"
    /\ fed = <<>>
    /\ call = None
    /\ outcome = None
    /\ invoked = 0
    /\ request = None
    /\ listings = <<>>
    /\ prepared = None
    /\ found = None
    /\ configured = [exception_type \in ExceptionTypes |-> None]
    /\ loop = None
    /\ driver = None

\* The host calls manager.set_handler(exception_type, handler).
SetHandler(exception_type, handler) ==
    /\ manager' = set_handler(manager, exception_type, handler)
    /\ configured' = [configured EXCEPT ![exception_type] = handler]
    /\ UNCHANGED <<log, handled, asm_vars, exec_vars, registry_vars, loop, driver>>

\* The host decorates handler with @manager.register(exception_type).
Register(exception_type, handler) ==
    /\ manager' = register(manager, exception_type, handler)
    /\ configured' = [configured EXCEPT ![exception_type] = handler]
    /\ UNCHANGED <<log, handled, asm_vars, exec_vars, registry_vars, loop, driver>>

\* The dispatcher calls manager.handle(e); handled keeps, for each call,
\* the exception, the handler the manager held for its class, the handler
\* the host set last for its class, and what the call did.
Handle(e) ==
    /\ Len(handled) < MaxHandled
    /\ LET r == handle(manager, e)
       IN /\ log' = log \o r.warnings
          /\ handled' = Append(handled, [e |-> e,
                                         handler |-> get_handler(manager, type_name(e)),
                                         raised |-> r.raised,
                                         value |-> r.value,
                                         warnings |-> r.warnings,
                                         calls |-> r.calls,
                                         last_set |-> configured[type_name(e)]])
    /\ UNCHANGED <<manager, asm_vars, exec_vars, registry_vars, aux_vars>>

HandlerNext ==
    \/ \E exception_type \in ExceptionTypes, handler \in Handlers :
          SetHandler(exception_type, handler)
    \/ \E exception_type \in ExceptionTypes, handler \in Handlers :
          Register(exception_type, handler)
    \/ \E e \in ToolExceptions : Handle(e)

HandlerSpec == HandlerInit /\ [][HandlerNext]_vars

\* ------------------------------------------------ handler properties

Contains(text, part) == \E i \in 1..Len(text) : Matches(text, i, part)

\* The warnings of the handle calls made so far, oldest first.
RECURSIVE WarningsOf(_)
WarningsOf(calls) ==
    IF calls = <<>> THEN <<>>
    ELSE WarningsOf(SubSeq(calls, 1, Len(calls) - 1)) \o calls[Len(calls)].warnings

\* C16: handle(e) for a tool exception whose class has no registered
\* handler does not raise, logs exactly one warning, and returns a string
\* that contains "Unhandled tool exception", the class name of e and
\* str(e); the log holds the warnings of the calls and nothing else.
C16_HandlerFallback ==
    /\ log = WarningsOf(handled)
    /\ \A i \in DOMAIN handled :
          LET h == handled[i]
          IN h.handler = None =>
                /\ h.raised = "none"
                /\ Len(h.warnings) = 1
                /\ h.warnings[1].level = "warning"
                /\ IsStr(h.value)
                /\ Contains(h.value.s, <<"U", "n", "h", "a", "n", "d", "l", "e", "d", " ", "t", "o", "o", "l", " ", "e", "x", "c", "e", "p", "t", "i", "o", "n">>)
                /\ Contains(h.value.s, type_name(h.e))
                /\ Contains(h.value.s, str(h.e))

\* Reached: one unhandled exception of each of the three classes has been
\* handled while a handler for the base class was registered.
C16_Witness ==
    /\ Len(handled) = 3
    /\ {type_name(handled[i].e) : i \in DOMAIN handled}
          = ExceptionTypes \ {LlmToolExceptionName}
    /\ \A i \in DOMAIN handled : handled[i].handler = None
    /\ Len(log) = 3
    /\ get_handler(manager, LlmToolExceptionName) # None

\* ======================================================================
\* Tool registration: toolsets (tool/toolset/python_toolset.py), the tool
\* list of a request, its preparation for the provider, and resolution by
\* name.
\* ======================================================================

\* Number of get_tools() results the host holds at most.
MaxListings == 2

\* fn.__doc__ of a function (None: the function has no docstring).
WithDoc(fn, doc) == ("doc" :> doc) @@ fn

\* ToolDef(name=, description=, execute=) with its defaults attribute.
DescribedToolDef(name, description, execute, defaults) ==
    [kind |-> "tooldef", name |-> name, description |-> description,
     execute |-> execute, defaults |-> defaults]

\* A method in the body of a PythonToolset subclass; is_tool and defaults
\* are the attributes @python_tool sets (TOOL_FLAG, TOOL_DEFAULTS).
Method(name, decorated, doc, defaults) ==
    [kind |-> "method", name |-> name, decorated |-> decorated, doc |-> doc,
     tool_defaults |-> defaults]

\* is_tool(func): getattr(func, TOOL_FLAG, False)
is_tool(func) == func.decorated

\* get_tool_defaults(func): getattr(func, TOOL_DEFAULTS, {})
get_tool_defaults(func) == IF func.decorated THEN func.tool_defaults ELSE PyDict(<<>>)

\* An instance of a PythonToolset subclass: its class and the methods of
\* the class body, in definition order.
Toolset(class_name, methods) == [class_name |-> class_name, methods |-> methods]

\* PythonToolset.name / get_toolset_name(): self.__class__.__name__
get_toolset_name(self) == self.class_name

\* Code-point order of the characters names are made of.
Alphabet == <<"0", "1", "2", "3", "4", "5", "6", "7", "8", "9", "A", "B", "C", "D", "E", "F", "G", "H", "I", "J", "K", "L", "M", "N", "O", "P", "Q", "R", "S", "T", "U", "V", "W", "X", "Y", "Z", "_", "a", "b", "c", "d", "e", "f", "g", "h", "i", "j", "k", "l", "m", "n", "o", "p", "q", "r", "s", "t", "u", "v", "w", "x", "y", "z">>
Ord(c) == CHOOSE k \in DOMAIN Alphabet : Alphabet[k] = c

\* a < b on str
RECURSIVE Before(_, _)
Before(a, b) ==
    IF a = <<>> THEN b # <<>>
    ELSE IF b = <<>> THEN FALSE
    ELSE IF a[1] = b[1] THEN Before(Tail(a), Tail(b))
    ELSE Ord(a[1]) < Ord(b[1])

\* self.<method>: the method bound to the instance.
bound_method(self, method) == ("self" :> self.class_name) @@ method

\* inspect.getmembers(self, predicate=inspect.ismethod): the bound methods,
\* sorted by name.
getmembers(self) ==
    SortSeq([k \in DOMAIN self.methods |-> bound_method(self, self.methods[k])],
            LAMBDA a, b : Before(a.name, b.name))

\* Toolset.format_tool_name(tool_name): f"{toolset_name}__{tool_name}"
format_tool_name(self, tool_name) == get_toolset_name(self) \o <<"_", "_">> \o tool_name

\* ToolDef.from_tool_fn(method): named after the method; the description is
\* the docstring, "" when the method has none.
from_tool_fn(method) ==
    DescribedToolDef(method.name,
                     IF method.doc = None THEN PyStr(<<>>) ELSE method.doc,
                     method, PyDict(<<>>))

\* What get_tools leaves behind: the list it returns and the toolset after.
Listed(value, self) == [value |-> value, self |-> self]

RECURSIVE tool_defs_of(_, _, _)
tool_defs_of(self, members, namespaced_tool_name) ==
    IF members = <<>> THEN <<>>
    ELSE LET method == Head(members)
             rest == tool_defs_of(self, Tail(members), namespaced_tool_name)
         IN IF ~is_tool(method) THEN rest
            ELSE LET tool_def == from_tool_fn(method)
                 IN <<[tool_def EXCEPT
                         !.name = IF namespaced_tool_name
                                  THEN format_tool_name(self, tool_def.name)
                                  ELSE tool_def.name,
                         !.defaults = get_tool_defaults(method)]>> \o rest

RECURSIVE renamed(_, _)
renamed(self, methods) ==
    IF methods = <<>> THEN <<>>
    ELSE <<[Head(methods) EXCEPT !.name = IF is_tool(Head(methods))
                                          THEN format_tool_name(self, @) ELSE @]>>
         \o renamed(self, Tail(methods))

get_tools_undecorated_too(self, namespaced_tool_name) ==
    Listed(tool_defs_of(self,
                        [k \in DOMAIN self.methods |->
                            [getmembers(self)[k] EXCEPT !.decorated = TRUE]],
                        namespaced_tool_name),
           self)

get_tools_documented_only(self, namespaced_tool_name) ==
    Listed(SelectSeq(tool_defs_of(self, getmembers(self), namespaced_tool_name),
                     LAMBDA tool_def : tool_def.description # PyStr(<<>>)),
           self)

get_tools_renaming_methods(self, namespaced_tool_name) ==
    Listed(tool_defs_of(self, getmembers(self), namespaced_tool_name),
           IF namespaced_tool_name
           THEN [self EXCEPT !.methods = renamed(self, self.methods)] ELSE self)

\* PythonToolset.get_tools(namespaced_tool_name)
get_tools(self, namespaced_tool_name) ==
    Listed(tool_defs_of(self, getmembers(self), namespaced_tool_name), self)

\* ------------------------------------------------ preparing the tools

\* The text every missing-docstring error carries (the rest of the message
\* is not fixed by anything in the repository).
MustHaveDocstring == <<"m", "u", "s", "t", " ", "h", "a", "v", "e", " ", "a", " ", "d", "o", "c", "s", "t", "r", "i", "n", "g">>

\* {"type": "function", "function": function}
Envelope(function) == [type |-> "function", function |-> function]

\* How a preparation ended: the envelopes, or the exception and its message.
Prepared(value) == [raised |-> "none", message |-> <<>>, value |-> value]
PrepareFailed(exc, text) == [raised |-> exc, message |-> text, value |-> None]

\* generate_tool_definition_from_callable(fn): ValueError for a callable
\* without docstring.
generate_tool_definition_from_callable(fn) ==
    IF fn.doc = None THEN PrepareFailed("ValueError", MustHaveDocstring)
    ELSE Prepared(Envelope([name |-> fn.name, description |-> fn.doc]))

\* One tool of the list: a callable is introspected, a ToolDef gives its
\* name and description, a raw mapping is wrapped as it is.
prepare_tool(tool) ==
    IF callable(tool) THEN generate_tool_definition_from_callable(tool)
    ELSE IF tool.kind = "tooldef"
    THEN Prepared(Envelope([name |-> tool.name, description |-> tool.description]))
    ELSE Prepared(Envelope(tool))

\* prepare_tools(tools): one envelope per tool, left to right; the first
\* error ends the preparation.
RECURSIVE prepare_tools(_)
prepare_tools(tools) ==
    IF tools = <<>> THEN Prepared(<<>>)
    ELSE LET first == prepare_tool(Head(tools))
             rest == prepare_tools(Tail(tools))
         IN IF first.raised # "none" THEN first
            ELSE IF rest.raised # "none" THEN rest
            ELSE Prepared(<<first.value>> \o rest.value)

\* The tools of the toolsets, toolset after toolset.
RECURSIVE toolset_tools(_)
toolset_tools(toolsets) ==
    IF toolsets = <<>> THEN <<>>
    ELSE get_tools(Head(toolsets), TRUE).value \o toolset_tools(Tail(toolsets))

\* LlmRequestParams.extract_tools(): the tools of the request followed by
\* the tools of its toolsets.
extract_tools(params) == params.tools \o toolset_tools(params.toolsets)

\* ------------------------------------------------ resolution by name

\* What a lookup returned and the list it left.
Found(result, tools) == [result |-> result, tools |-> tools]

\* find_tool_by_name(tools, name): the name of a callable is its __name__,
\* of a ToolDef its name, of a raw mapping its "name" entry.
RECURSIVE find_tool_by_name(_, _)
find_tool_by_name(tools, tool_name) ==
    IF tools = <<>> THEN Found(None, <<>>)
    ELSE IF Head(tools).name = tool_name THEN Found(Head(tools), tools)
    ELSE LET rest == find_tool_by_name(Tail(tools), tool_name)
         IN Found(rest.result, <<Head(tools)>> \o rest.tools)

\* ------------------------------------------------ registration inputs

Doc == PyStr(<<"d", "o", "c">>)
T1 == <<"t", "1">>

\* Documented functions, and one without docstring: def fail(v=None): raise ...
echo_documented == WithDoc(echo, Doc)
echo_twin_documented == WithDoc(echo_twin, Doc)
echo_capital_documented == WithDoc(echo_capital, Doc)
fail_undocumented == WithDoc(fail, None)

\* ToolDef(name="echo", ...), ToolDef(name="t1", ...) and raw mappings
\* {"name": "echo", ...}, {"name": "raw", ...}
echo_tool_def == DescribedToolDef(echo.name, Doc, echo, PyDict(<<>>))
t1_tool_def == DescribedToolDef(T1, PyStr(<<>>), echo, PyDict(<<>>))
echo_raw == RawToolDef(echo.name)
raw == RawToolDef(<<"r", "a", "w">>)

\* class A(PythonToolset):
\*     @python_tool
\*     def t1(self, v): """doc"""
\*     @python_tool(defaults={"ap": True})
\*     def s(self, v): ...              (no docstring)
\*     def helper(self): """doc"""      (not a tool)
\*     @python_tool
\*     def T(self, v): """doc"""
A ==
    Toolset(<<"A">>,
            << Method(T1, TRUE, Doc, PyDict(<<>>)),
               Method(<<"s">>, TRUE, None, PyDict(<< <<AutoApprove, PyBool(TRUE)>> >>)),
               Method(<<"h", "e", "l", "p", "e", "r">>, FALSE, Doc, PyDict(<<>>)),
               Method(<<"T">>, TRUE, Doc, PyDict(<<>>)) >>)

\* class B(PythonToolset):
\*     @python_tool
\*     def t1(self, v): """doc"""
\*     @python_tool
\*     def echo(self, v): """doc"""
B ==
    Toolset(<<"B">>,
            << Method(T1, TRUE, Doc, PyDict(<<>>)),
               Method(echo.name, TRUE, Doc, PyDict(<<>>)) >>)

ToolsetClasses == {A, B}

ToolLists ==
    { <<>>,
      <<echo_documented, t1_tool_def, raw>>,
      <<echo_raw, echo_documented, echo_tool_def>>,
      <<echo_tool_def, echo_twin_documented, raw>>,
      <<echo_capital_documented, echo_documented, echo_twin_documented>>,
      <<echo_documented, fail_undocumented, raw>>,
      <<fail_undocumented>> }

ToolsetLists == { <<>>, <<A>>, <<B>>, <<A, B>>, <<B, A>> }

\* LlmRequestParams(tools=..., toolsets=...)
Requests == [tools : ToolLists, toolsets : ToolsetLists]

\* Names a lookup asks for.
LookupNames ==
    { echo.name, echo_capital.name, <<"e", "c", "h">>, <<"e", "c", "h", "o", "o">>, T1,
      <<"A", "_", "_", "t", "1">>, <<"B", "_", "_", "t", "1">>, <<"B", "_", "_", "e", "c", "h", "o">>, <<"r", "a", "w">> }

\* tools1[0] = ToolDef(name="modified_name", ...)
modified == DescribedToolDef(<<"m", "o", "d", "i", "f", "i", "e", "d", "_", "n", "a", "m", "e">>, PyStr(<<>>), echo, PyDict(<<>>))

\* ------------------------------------------------ toolset steps

\* The host holds toolsets and has not listed their tools yet.
ToolsetInit ==
    /\ request \in [tools : {<<>>}, toolsets : ToolsetLists \ {<<>>}]
    /\ listings = <<>>
    /\ prepared = None
    /\ found = None
    /\ collector = NewCollector
    /\ message = None
    /\ last_op = "none"
    /\ raised = "none"
    /\ fed = <<>>
    /\ call = None
    /\ outcome = None
    /\ invoked = 0
    /\ manager = None
    /\ log = <<>>
    /\ handled = <<>>
    /\ configured = None
    /\ loop = None
    /\ driver = None

\* The host calls request.toolsets[i].get_tools(namespaced_tool_name) and
\* keeps the list.
GetTools(i, namespaced_tool_name) ==
    /\ Len(listings) < MaxListings
    /\ LET r == get_tools(request.toolsets[i], namespaced_tool_name)
       IN /\ listings' = Append(listings,
                                [class_name |-> request.toolsets[i].class_name,
                                 namespaced |-> namespaced_tool_name,
                                 returned |-> r.value,
                                 held |-> r.value])
          /\ request' = [request EXCEPT !.toolsets[i] = r.self]
    /\ UNCHANGED <<prepared, found, asm_vars, exec_vars, handler_vars, aux_vars>>

\* The host replaces an element of a list it holds: tools[j] = ToolDef(...).
ReplaceElement(k, j) ==
    /\ listings[k].held[j] # modified
    /\ listings' = [listings EXCEPT ![k].held[j] = modified]
    /\ UNCHANGED <<request, prepared, found, asm_vars, exec_vars, handler_vars, aux_vars>>

ToolsetNext ==
    \/ \E i \in DOMAIN request.toolsets, namespaced_tool_name \in BOOLEAN :
          GetTools(i, namespaced_tool_name)
    \/ \E k \in DOMAIN listings : \E j \in DOMAIN listings[k].held : ReplaceElement(k, j)

ToolsetSpec == ToolsetInit /\ [][ToolsetNext]_vars

\* ------------------------------------------------ registration steps

\* A request with its tools and toolsets, before anything is sent.
RegistryInit ==
    /\ request \in Requests
    /\ listings = <<>>
    /\ prepared = None
    /\ found = None
    /\ collector = NewCollector
    /\ message = None
    /\ last_op = "none"
    /\ raised = "none"
    /\ fed = <<>>
    /\ call = None
    /\ outcome = None
    /\ invoked = 0
    /\ manager = None
    /\ log = <<>>
    /\ handled = <<>>
    /\ configured = None
    /\ loop = None
    /\ driver = None

\* The client prepares the tools of the request for the provider.
PrepareTools ==
    /\ prepared' = prepare_tools(extract_tools(request))
    /\ UNCHANGED <<request, listings, found, asm_vars, exec_vars, handler_vars, aux_vars>>

\* A tool is looked up by name in the tools of the request.
FindTool(tool_name) ==
    /\ LET tools == extract_tools(request)
           r == find_tool_by_name(tools, tool_name)
       IN found' = [tool_name |-> tool_name, tools |-> tools,
                    result |-> r.result, left |-> r.tools,
                    target |-> find_target_tool(SelectSeq(tools, callable),
                                                PyStr(tool_name))]
    /\ UNCHANGED <<request, listings, prepared, asm_vars, exec_vars, handler_vars, aux_vars>>

RegistryNext ==
    \/ PrepareTools
    \/ \E tool_name \in LookupNames : FindTool(tool_name)

RegistrySpec == RegistryInit /\ [][RegistryNext]_vars

\* ------------------------------------------------ registration properties

\* The methods of a toolset that are tools, and how many tools the
\* toolsets before position p expose.
ToolMethods(toolset) ==
    {toolset.methods[k] : k \in {n \in DOMAIN toolset.methods : toolset.methods[n].decorated}}

RECURSIVE ToolsBefore(_, _)
ToolsBefore(toolsets, p) ==
    IF p <= 1 THEN 0
    ELSE ToolsBefore(toolsets, p - 1) + Cardinality(ToolMethods(toolsets[p - 1]))

PreparationReturned == prepared # None /\ prepared.raised = "none"

\* C17: a preparation that returns gives one function envelope per tool:
\* the envelopes of the request's tools first, in the order of the list
\* (a raw mapping wrapped unchanged), then for every toolset, at the
\* toolset's position, the envelopes of its tools next to each other in
\* the order the toolset lists them (by method name), named
\* <class>__<method>; the output is as long as the tools supplied.
C17_RegistryOrder ==
    PreparationReturned =>
        LET envelopes == prepared.value
            tools == request.tools
            toolsets == request.toolsets
            first(p) == Len(tools) + ToolsBefore(toolsets, p)
        IN /\ Len(envelopes) = first(Len(toolsets) + 1)
           /\ \A i \in DOMAIN envelopes : envelopes[i].type = "function"
           /\ \A i \in DOMAIN tools :
                 /\ envelopes[i].function.name = tools[i].name
                 /\ tools[i].kind = "other" => envelopes[i].function = tools[i]
           /\ \A p \in DOMAIN toolsets :
                 LET members == SubSeq(envelopes, first(p) + 1, first(p + 1))
                 IN /\ {members[k].function.name : k \in DOMAIN members}
                          = {toolsets[p].class_name \o <<"_", "_">> \o m.name :
                                m \in ToolMethods(toolsets[p])}
                    /\ \A k, l \in DOMAIN members :
                          k < l => Before(members[k].function.name,
                                          members[l].function.name)

\* Reached: a callable, a ToolDef and a raw mapping followed by two
\* toolsets have been prepared into eight envelopes.
C17_Witness ==
    /\ PreparationReturned
    /\ request.tools = <<echo_documented, t1_tool_def, raw>>
    /\ request.toolsets = <<B, A>>
    /\ Len(prepared.value) = 8
    /\ prepared.value[3].function = raw
    /\ prepared.value[6].function.name = <<"A", "_", "_", "T">>

\* Positions of the tools of a list that carry a name.
Named(tools, tool_name) == {i \in DOMAIN tools : tools[i].name = tool_name}

FirstNamed(tools, tool_name) ==
    IF Named(tools, tool_name) = {} THEN None
    ELSE tools[CHOOSE i \in Named(tools, tool_name) :
                   \A j \in Named(tools, tool_name) : i <= j]

\* C18: a lookup by name returns the first tool of the list whose name is
\* exactly the requested one, of whatever kind (callable, ToolDef, raw
\* mapping), and None when there is none; the list is left as it was, later
\* tools of that name included; find_target_tool does the same over the
\* callables; "A__t1" and "B__t1" resolve to the t1 of A and of B.
C18_ResolutionByName ==
    found # None =>
        /\ found.result = FirstNamed(found.tools, found.tool_name)
        /\ found.left = found.tools
        /\ found.target = FirstNamed(SelectSeq(found.tools, callable), found.tool_name)
        /\ \A toolset \in ToolsetClasses :
              (/\ found.tool_name = toolset.class_name \o <<"_", "_">> \o T1
               /\ \E p \in DOMAIN request.toolsets : request.toolsets[p] = toolset)
              => /\ found.result # None
                 /\ found.result.name = found.tool_name
                 /\ found.result.execute = bound_method(toolset, toolset.methods[1])

\* Reached: "echo" was looked up in a list holding a raw mapping, a
\* function and a ToolDef of that name; the raw mapping, first in the
\* list, was returned and the other two are still in the list.
C18_Witness ==
    /\ found # None
    /\ found.tool_name = echo.name
    /\ found.tools = <<echo_raw, echo_documented, echo_tool_def>> \o toolset_tools(<<A, B>>)
    /\ found.result = echo_raw
    /\ found.target = echo_documented
    /\ found.left[2] = echo_documented /\ found.left[3] = echo_tool_def

\* ------------------------------------------------ toolset properties

\* The class an instance was made from.
ClassNamed(class_name) == CHOOSE c \in ToolsetClasses : c.class_name = class_name

\* C19: every list get_tools has returned holds one ToolDef per tool
\* method of the class, named <class>__<method> when namespacing was on
\* and by the bare method name when it was off, whatever get_tools calls
\* came before and whatever the host did to the lists returned earlier.
C19_Namespacing ==
    \A k \in DOMAIN listings :
        LET class == ClassNamed(listings[k].class_name)
            returned == listings[k].returned
        IN /\ Len(returned) = Cardinality(ToolMethods(class))
           /\ Cardinality({returned[j].name : j \in DOMAIN returned}) = Len(returned)
           /\ \A j \in DOMAIN returned :
                 \E method \in ToolMethods(class) :
                     /\ returned[j].execute = bound_method(class, method)
                     /\ returned[j].name =
                            IF listings[k].namespaced
                            THEN class.class_name \o <<"_", "_">> \o method.name
                            ELSE method.name

\* Reached: get_tools of an A was called twice with namespacing on; the
\* host replaced the first element of the first list, and the second list
\* came back with the three names prefixed once.
C19_Witness ==
    /\ Len(listings) = 2
    /\ listings[1].class_name = <<"A">> /\ listings[2].class_name = <<"A">>
    /\ listings[1].namespaced /\ listings[2].namespaced
    /\ listings[1].held[1] = modified
    /\ listings[2].held[1] # modified
    /\ {listings[2].returned[j].name : j \in 1..3} = {<<"A", "_", "_", "T">>, <<"A", "_", "_", "s">>, <<"A", "_", "_", "t", "1">>}

\* The functions in the tool list of the request that have no docstring.
UndocumentedFunctions ==
    {i \in DOMAIN request.tools :
        callable(request.tools[i]) /\ request.tools[i].doc = None}

\* C20: preparing a request that exposes a callable without docstring, as
\* a function of the tool list or as a tool method of a toolset, fails with
\* an error whose message contains "must have a docstring", and no
\* envelope is produced.
C20_MissingDocstringIsFatal ==
    (/\ prepared # None
     /\ \/ UndocumentedFunctions # {}
        \/ \E p \in DOMAIN request.toolsets :
              \E method \in ToolMethods(request.toolsets[p]) : method.doc = None)
    => /\ prepared.raised # "none"
       /\ Contains(prepared.message, MustHaveDocstring)
       /\ prepared.value = None

\* C20 as the code has it: a function without docstring in the tool list
\* makes the preparation fail with ValueError, message containing "must
\* have a docstring", and no envelope is produced; when every function of
\* the tool list has a docstring the preparation returns, and a tool method
\* without docstring has its envelope, with the empty description.
C20_MissingDocstringFatalForFunctions ==
    prepared # None =>
        IF UndocumentedFunctions # {}
        THEN /\ prepared.raised = "ValueError"
             /\ Contains(prepared.message, MustHaveDocstring)
             /\ prepared.value = None
        ELSE /\ prepared.raised = "none"
             /\ \A p \in DOMAIN request.toolsets :
                   \A method \in ToolMethods(request.toolsets[p]) :
                       method.doc = None =>
                           \E i \in DOMAIN prepared.value :
                               prepared.value[i].function =
                                   [name |-> request.toolsets[p].class_name
                                                \o <<"_", "_">> \o method.name,
                                    description |-> PyStr(<<>>)]

\* Reached: a preparation failed on the function without docstring that
\* follows a documented one, although a toolset came with the request.
C20_Witness ==
    /\ prepared # None
    /\ request.tools = <<echo_documented, fail_undocumented, raw>>
    /\ request.toolsets = <<A, B>>
    /\ prepared.raised = "ValueError"
    /\ prepared.value = None

\* ---------------------------------------------------------------------
\* Type compilation and introspection (dais_sdk.tool.prepare).
\* ---------------------------------------------------------------------

PyFloat(chars) == [f |-> chars]

\* Type descriptors: the annotations a parameter can carry.
Prim(t) == [t |-> t]
ListOf(arg) == [t |-> "list", arg |-> arg]
Union(args) == [t |-> "Union", args |-> args]
Optional(arg) == Union(<<arg, Prim("NoneType")>>)
Literal(values) == [t |-> "Literal", values |-> values]
Enum(values) == [t |-> "Enum", values |-> values]

IsBoolValue(v) == "b" \in DOMAIN v
IsIntValue(v) == "i" \in DOMAIN v
IsFloatValue(v) == "f" \in DOMAIN v

\* A variant that takes the base type from the first member alone.
enum_base_type_of_first(values) ==
    IF IsBoolValue(values[1]) THEN "boolean"
    ELSE IF IsIntValue(values[1]) THEN "integer"
    ELSE IF IsFloatValue(values[1]) THEN "number"
    ELSE "string"

\* The base type of a fixed-choice enumeration, from its member values.
enum_base_type(values) ==
    IF \A k \in DOMAIN values : IsBoolValue(values[k]) THEN "boolean"
    ELSE IF \A k \in DOMAIN values : IsIntValue(values[k]) THEN "integer"
    ELSE IF \A k \in DOMAIN values : IsIntValue(values[k]) \/ IsFloatValue(values[k])
    THEN "number"
    ELSE "string"

enum_schema(values) == [type |-> enum_base_type(values), enum |-> values]

IsAbsence(t) == t.t = "NoneType"

\* A variant of the union rule that keeps the absence marker as a branch.
union_alternatives_with_absence(args) == args

\* The alternatives of a union that become schema branches.
union_alternatives(args) == SelectSeq(args, LAMBDA t : ~IsAbsence(t))

\* _python_type_to_json_schema(python_type)
RECURSIVE _python_type_to_json_schema(_)
_python_type_to_json_schema(python_type) ==
    CASE python_type.t = "str" -> [type |-> "string"]
      [] python_type.t = "int" -> [type |-> "integer"]
      [] python_type.t = "float" -> [type |-> "number"]
      [] python_type.t = "bool" -> [type |-> "boolean"]
      [] python_type.t \in {"Any", "NoneType", "empty"} -> [type |-> "string"]
      [] python_type.t = "list" ->
            [type |-> "array", items |-> _python_type_to_json_schema(python_type.arg)]
      [] python_type.t = "Union" ->
            LET alternatives == union_alternatives(python_type.args)
            IN IF Len(alternatives) = 0 THEN [type |-> "string"]
               ELSE IF Len(alternatives) = 1
               THEN _python_type_to_json_schema(alternatives[1])
               ELSE [oneOf |-> [k \in 1..Len(alternatives) |->
                                   _python_type_to_json_schema(alternatives[k])]]
      [] python_type.t \in {"Literal", "Enum"} -> enum_schema(python_type.values)

\* One parameter of a signature. kind: "receiver" (the self of a bound
\* method), "positional", "var_positional" (*args), "var_keyword" (**kwargs).
Parameter(name, kind, has_default, annotation) ==
    [name |-> name, kind |-> kind, has_default |-> has_default,
     annotation |-> annotation]

\* A callable with its docstring and its parameters in declaration order.
Callable(name, doc, signature) ==
    [kind |-> IF Len(signature) > 0 /\ signature[1].kind = "receiver"
              THEN "method" ELSE "function",
     name |-> name, doc |-> doc, signature |-> signature]

IsSynthetic(parameter) ==
    parameter.kind \in {"receiver", "var_positional", "var_keyword"}

\* A variant that lists the variadic catch-alls as properties.
schema_parameters_with_variadics(signature) ==
    SelectSeq(signature, LAMBDA p : p.kind # "receiver")

\* The parameters of a signature that appear in the schema.
schema_parameters(signature) == SelectSeq(signature, LAMBDA p : ~IsSynthetic(p))

\* The "parameters" object of a tool definition: properties as pairs
\* <<name, schema>> in insertion order, required as a list of names.
parameters_schema(signature) ==
    LET listed == schema_parameters(signature)
        needed == SelectSeq(listed, LAMBDA p : ~p.has_default)
    IN [type |-> "object",
        properties |-> [k \in 1..Len(listed) |->
                           <<listed[k].name,
                             _python_type_to_json_schema(listed[k].annotation)>>],
        required |-> [k \in 1..Len(needed) |-> needed[k].name]]

\* introspect(callable): the tool definition of a callable, with its
\* parameters object.
introspect(fn) ==
    LET definition == generate_tool_definition_from_callable(fn)
    IN IF definition.raised # "none" THEN definition
       ELSE Prepared(Envelope([name |-> fn.name, description |-> fn.doc,
                               parameters |-> parameters_schema(fn.signature)]))

\* Subsequences of a sequence, in its order.
RECURSIVE SubSeqs(_)
SubSeqs(s) ==
    IF s = <<>> THEN {<<>>}
    ELSE LET rest == SubSeqs(Tail(s))
         IN rest \cup {<<Head(s)>> \o r : r \in rest}

\* Sequences without repetition over a set, of length lo..hi.
InjectiveSeqs(S, lo, hi) ==
    UNION {{s \in [1..n -> S] : \A i, j \in 1..n : i # j => s[i] # s[j]} : n \in lo..hi}

\* def connect(self, host: str, items: list[str], port: int = 8080,
\*             options: Optional[str] = None, legacy="x", *args, **kwargs)
\* and every callable that declares a part of these parameters.
ParameterPool ==
    <<Parameter(<<"s", "e", "l", "f">>, "receiver", FALSE, Prim("empty")),
      Parameter(<<"h", "o", "s", "t">>, "positional", FALSE, Prim("str")),
      Parameter(<<"i", "t", "e", "m", "s">>, "positional", FALSE, ListOf(Prim("str"))),
      Parameter(<<"p", "o", "r", "t">>, "positional", TRUE, Prim("int")),
      Parameter(<<"o", "p", "t", "i", "o", "n", "s">>, "positional", TRUE, Optional(Prim("str"))),
      Parameter(<<"a", "r", "g", "s">>, "var_positional", FALSE, Prim("empty")),
      Parameter(<<"k", "w", "a", "r", "g", "s">>, "var_keyword", FALSE, Prim("empty"))>>

Callables ==
    {Callable(<<"c", "o", "n", "n", "e", "c", "t">>, Doc, signature) : signature \in SubSeqs(ParameterPool)}
    \cup {Callable(<<"c", "o", "n", "n", "e", "c", "t">>, None, <<ParameterPool[2]>>)}

PrimitiveTypes == {Prim(t) : t \in {"str", "int", "float", "bool", "NoneType", "Any"}}
UnionTypes ==
    {Union(args) : args \in InjectiveSeqs({Prim(t) : t \in {"str", "int", "float", "NoneType"}}, 2, 3)}
ContainerTypes ==
    {ListOf(t) : t \in PrimitiveTypes \cup {u \in UnionTypes : Len(u.args) = 2}}

\* Member values: booleans and strings, or numbers and strings, never
\* repeated (a repeated value would be an alias of the first).
MemberLists ==
    InjectiveSeqs({PyBool(TRUE), PyBool(FALSE), PyStr(<<"a">>)}, 1, 3)
    \cup InjectiveSeqs({PyInt(1), PyInt(2), PyFloat(<<"2", ".", "5">>), PyStr(<<"a">>)}, 1, 3)
EnumerationTypes ==
    {Literal(values) : values \in MemberLists} \cup {Enum(values) : values \in MemberLists}

TypeDescriptors == PrimitiveTypes \cup UnionTypes \cup ContainerTypes \cup EnumerationTypes

IsCallable(value) == "signature" \in DOMAIN value
IsTypeDescriptor(value) == "t" \in DOMAIN value

SchemaInit ==
    /\ request \in Callables \cup TypeDescriptors
    /\ listings = <<>>
    /\ prepared = None
    /\ found = None
    /\ collector = NewCollector
    /\ message = None
    /\ last_op = "none"
    /\ raised = "none"
    /\ fed = <<>>
    /\ call = None
    /\ outcome = None
    /\ invoked = 0
    /\ manager = None
    /\ log = <<>>
    /\ handled = <<>>
    /\ configured = None
    /\ loop = None
    /\ driver = None

\* A callable is introspected into its tool definition.
Introspect ==
    /\ IsCallable(request)
    /\ prepared' = introspect(request)
    /\ UNCHANGED <<request, listings, found, asm_vars, exec_vars, handler_vars, aux_vars>>

\* A type descriptor is compiled into its schema.
CompileType ==
    /\ IsTypeDescriptor(request)
    /\ prepared' = Prepared(_python_type_to_json_schema(request))
    /\ UNCHANGED <<request, listings, found, asm_vars, exec_vars, handler_vars, aux_vars>>

SchemaNext == Introspect \/ CompileType

SchemaSpec == SchemaInit /\ [][SchemaNext]_vars

Introspected == IsCallable(request) /\ prepared # None /\ prepared.raised = "none"
Compiled == IsTypeDescriptor(request) /\ prepared # None

\* The names of a list of parameters, in its order.
NamesOf(parameters) == [k \in 1..Len(parameters) |-> parameters[k].name]

\* C21: the parameters object of an introspected callable has type
\* "object"; its properties are, in declaration order, exactly the
\* parameters that are neither the receiver nor *args/**kwargs; required
\* names, in declaration order, exactly those of them without a default;
\* a callable with no such parameter gets properties {} and required [].
C21_IntrospectedParameters ==
    Introspected =>
        LET parameters == prepared.value.function.parameters
            declared == request.signature
            kept == SelectSeq(declared, LAMBDA p : p.kind = "positional")
        IN /\ parameters.type = "object"
           /\ [k \in 1..Len(parameters.properties) |-> parameters.properties[k][1]]
                 = NamesOf(kept)
           /\ parameters.required
                 = NamesOf(SelectSeq(kept, LAMBDA p : ~p.has_default))
           /\ (kept = <<>>) =>
                 parameters.properties = <<>> /\ parameters.required = <<>>

\* def connect(self, host, port=8080, *args, **kwargs) was introspected:
\* host and port are listed, host alone is required.
C21_Witness ==
    /\ Introspected
    /\ NamesOf(request.signature)
          = <<<<"s", "e", "l", "f">>, <<"h", "o", "s", "t">>, <<"p", "o", "r", "t">>, <<"a", "r", "g", "s">>, <<"k", "w", "a", "r", "g", "s">>>>
    /\ prepared.value.function.parameters.required = <<<<"h", "o", "s", "t">>>>
    /\ Len(prepared.value.function.parameters.properties) = 2

\* A callable without any parameter was introspected.
C21_WitnessEmpty ==
    /\ Introspected
    /\ request.signature = <<>>
    /\ prepared.value.function.parameters.properties = <<>>

\* The schema of a primitive alternative, as the tests state it.
PrimitiveSchema(t) ==
    CASE t.t = "str" -> [type |-> "string"]
      [] t.t = "int" -> [type |-> "integer"]
      [] t.t = "float" -> [type |-> "number"]

\* The alternatives of a union other than the absence marker, in order.
NonAbsent(args) == SelectSeq(args, LAMBDA t : t # Prim("NoneType"))

\* What the union rules give for a union of primitives.
UnionRule(args, schema) ==
    LET others == NonAbsent(args)
    IN /\ Len(others) >= 2 =>
             schema = [oneOf |-> [k \in 1..Len(others) |-> PrimitiveSchema(others[k])]]
       /\ Len(others) = 1 =>
             schema = PrimitiveSchema(others[1]) /\ "oneOf" \notin DOMAIN schema

\* C22: a union with two or more alternatives other than absence compiles
\* to oneOf over their schemas, in declaration order and without a branch
\* for absence; a union of one alternative and absence compiles to that
\* alternative's schema with no oneOf, also as the element of a container;
\* absence alone compiles to {type: string}.
C22_UnionCompilation ==
    Compiled =>
        /\ request.t = "Union" => UnionRule(request.args, prepared.value)
        /\ (request.t = "list" /\ request.arg.t = "Union") =>
              /\ prepared.value.type = "array"
              /\ UnionRule(request.arg.args, prepared.value.items)
        /\ request = Prim("NoneType") => prepared.value = [type |-> "string"]

\* Union[int, None, str] was compiled: two branches, integer then string.
C22_Witness ==
    /\ Compiled
    /\ request = Union(<<Prim("int"), Prim("NoneType"), Prim("str")>>)
    /\ prepared.value = [oneOf |-> <<[type |-> "integer"], [type |-> "string"]>>]

IsNumeric(v) == IsIntValue(v) \/ IsFloatValue(v)

\* C23: a Literal or a named enum compiles to enum = its member values in
\* declaration order, and to type boolean when all members are booleans,
\* integer when all are integers, number when all are numeric and one at
\* least is a float, string when a member is a string.
C23_EnumerationCompilation ==
    (Compiled /\ request.t \in {"Literal", "Enum"}) =>
        LET values == request.values
            members == {values[k] : k \in DOMAIN values}
        IN /\ prepared.value.enum = values
           /\ (\A v \in members : IsBoolValue(v)) => prepared.value.type = "boolean"
           /\ (\A v \in members : IsIntValue(v)) => prepared.value.type = "integer"
           /\ ((\A v \in members : IsNumeric(v)) /\ (\E v \in members : IsFloatValue(v)))
                 => prepared.value.type = "number"
           /\ (\E v \in members : "s" \in DOMAIN v) => prepared.value.type = "string"

\* class Priority(Enum): LOW = 1; MEDIUM = 2.5; HIGH = 2 was compiled.
C23_Witness ==
    /\ Compiled
    /\ request = Enum(<<PyInt(1), PyFloat(<<"2", ".", "5">>), PyInt(2)>>)
    /\ prepared.value = [type |-> "number",
                         enum |-> <<PyInt(1), PyFloat(<<"2", ".", "5">>), PyInt(2)>>]

\* ---------------------------------------------------------------------
\* LlmRequestParams.extract_tools with absent lists and its cache.
\* ---------------------------------------------------------------------

MaxExtractions == 3

\* The entries of an optional list: none when the list is None.
Items(value) == IF value = None THEN <<>> ELSE value.l

\* A list object: its identity and its entries.
ListObject(id, items) == [id |-> id, l |-> items]

\* The private state of a request: the cached list, and how many list
\* objects extract_tools has built.
NewExtraction == [_extracted_tools |-> None, allocated |-> 0]

Extracted(result, state) == [result |-> result, state |-> state]

\* A variant that builds a new list at every call.
cached_extract_tools_rebuilding(params, state) ==
    IF params.tools = None /\ params.toolsets = None THEN Extracted(None, state)
    ELSE LET tools == ListObject(state.allocated + 1,
                                 extract_tools([tools |-> Items(params.tools),
                                                toolsets |-> Items(params.toolsets)]))
         IN Extracted(tools, [_extracted_tools |-> tools,
                              allocated |-> state.allocated + 1])

\* LlmRequestParams.extract_tools(), with None for an absent list: the
\* cached list if there is one; None when tools and toolsets are both None;
\* otherwise a new list, kept for the next call.
cached_extract_tools(params, state) ==
    IF state._extracted_tools # None THEN Extracted(state._extracted_tools, state)
    ELSE IF params.tools = None /\ params.toolsets = None THEN Extracted(None, state)
    ELSE LET tools == ListObject(state.allocated + 1,
                                 extract_tools([tools |-> Items(params.tools),
                                                toolsets |-> Items(params.toolsets)]))
         IN Extracted(tools, [_extracted_tools |-> tools,
                              allocated |-> state.allocated + 1])

\* LlmRequestParams(tools=None or a list, toolsets=None or a list)
OptionalRequests ==
    [tools : {None} \cup {PyList(tools) : tools \in ToolLists},
     toolsets : {None} \cup {PyList(toolsets) : toolsets \in ToolsetLists}]

ExtractInit ==
    /\ request \in OptionalRequests
    /\ listings = <<>>
    /\ prepared = NewExtraction
    /\ found = None
    /\ collector = NewCollector
    /\ message = None
    /\ last_op = "none"
    /\ raised = "none"
    /\ fed = <<>>
    /\ call = None
    /\ outcome = None
    /\ invoked = 0
    /\ manager = None
    /\ log = <<>>
    /\ handled = <<>>
    /\ configured = None
    /\ loop = None
    /\ driver = None

\* params.extract_tools() is called; listings keeps what each call returned.
ExtractTools ==
    /\ Len(listings) < MaxExtractions
    /\ LET r == cached_extract_tools(request, prepared)
       IN /\ listings' = Append(listings, r.result)
          /\ prepared' = r.state
    /\ UNCHANGED <<request, found, asm_vars, exec_vars, handler_vars, aux_vars>>

ExtractNext == ExtractTools

ExtractSpec == ExtractInit /\ [][ExtractNext]_vars

\* C24: extract_tools returns None exactly when tools and toolsets are
\* both None; otherwise it returns the list of every tool entry followed
\* by every tool of every toolset (empty for tools None and no toolset);
\* all calls on one request return the same list object.
C24_ExtractTools ==
    \A k \in 1..Len(listings) :
        /\ listings[k] = None <=> (request.tools = None /\ request.toolsets = None)
        /\ listings[k] # None =>
              /\ listings[k].l = Items(request.tools)
                                    \o toolset_tools(Items(request.toolsets))
              /\ (request.tools = None /\ request.toolsets = PyList(<<>>))
                    => listings[k].l = <<>>
              /\ \A j \in 1..Len(listings) : listings[j].id = listings[k].id

\* Two calls on a request with tools None and two toolsets returned one
\* and the same list, of the five tools of the toolsets.
C24_Witness ==
    /\ Len(listings) = 2
    /\ request = [tools |-> None, toolsets |-> PyList(<<A, B>>)]
    /\ listings[1] # None
    /\ Len(listings[1].l) = 5
    /\ listings[2].id = listings[1].id

\* ---------------------------------------------------------------------
\* Cancellation of a caller awaiting execute_tool (asyncio task model).
\* ---------------------------------------------------------------------

\* The task of the caller. pc: "created" (the await has not begun),
\* "in_body" (a synchronous tool body is running inline, on the loop's
\* thread), "suspended" (an asynchronous tool body is waiting at an await
\* of its own), "done" (the await of execute_tool has ended).
\* must_cancel: task.cancel() was called and CancelledError is due at the
\* task's next suspension point. cancelled: task.cancel() was called while
\* the tool was running.
Task(pc, must_cancel, cancelled) ==
    [pc |-> pc, must_cancel |-> must_cancel, cancelled |-> cancelled]

\* The arguments reach the tool body: the tool is supported, the arguments
\* normalise and bind.
ReachesBody(tool, arguments) ==
    /\ Supported(tool)
    /\ _arguments_normalizer(arguments).raised = "none"
    /\ Binds(Target(tool), _arguments_normalizer(arguments).value)

CancelInit ==
    /\ call \in {c \in Calls : c.running_loop}
    /\ outcome = None
    /\ invoked = 0
    /\ loop = Task("created", FALSE, FALSE)
    /\ collector = NewCollector
    /\ message = None
    /\ last_op = "none"
    /\ raised = "none"
    /\ fed = <<>>
    /\ manager = None
    /\ log = <<>>
    /\ handled = <<>>
    /\ request = None
    /\ listings = <<>>
    /\ prepared = None
    /\ found = None
    /\ configured = None
    /\ driver = None

\* The caller's task reaches `await execute_tool(tool, arguments)` with a
\* call that ends before any tool body starts.
AwaitFails ==
    /\ loop.pc = "created"
    /\ ~ReachesBody(call.tool, call.arguments)
    /\ LET r == execute_tool(call.tool, call.arguments)
       IN /\ outcome' = r
          /\ invoked' = invoked + r.invoked
    /\ loop' = [loop EXCEPT !.pc = "done"]
    /\ UNCHANGED <<call, asm_vars, handler_vars, registry_vars, configured, driver>>

\* toolfn(**arguments) for a synchronous tool: the body starts, inline in
\* the coroutine, on the thread of the event loop.
EnterBody ==
    /\ loop.pc = "created"
    /\ ReachesBody(call.tool, call.arguments)
    /\ ~Target(call.tool).is_async
    /\ loop' = [loop EXCEPT !.pc = "in_body"]
    /\ UNCHANGED <<call, outcome, invoked, asm_vars, handler_vars, registry_vars,
                   configured, driver>>

\* await toolfn(**arguments) for an asynchronous tool whose body waits.
SuspendInBody ==
    /\ loop.pc = "created"
    /\ ReachesBody(call.tool, call.arguments)
    /\ Target(call.tool).is_async
    /\ loop' = [loop EXCEPT !.pc = "suspended"]
    /\ UNCHANGED <<call, outcome, invoked, asm_vars, handler_vars, registry_vars,
                   configured, driver>>

\* task.cancel() on the caller's task while the tool runs: by another task
\* while the body is suspended; by a signal handler or another thread while
\* a synchronous body occupies the loop's thread.
Cancel ==
    /\ loop.pc \in {"in_body", "suspended"}
    /\ ~loop.must_cancel
    /\ loop' = [loop EXCEPT !.must_cancel = TRUE, !.cancelled = TRUE]
    /\ UNCHANGED <<call, outcome, invoked, asm_vars, handler_vars, registry_vars,
                   configured, driver>>

\* The synchronous body returns or raises; execute_tool normalises and
\* returns to the caller without a suspension point in between.
ReturnFromBody ==
    /\ loop.pc = "in_body"
    /\ LET r == execute_tool(call.tool, call.arguments)
       IN /\ outcome' = r
          /\ invoked' = invoked + r.invoked
    /\ loop' = [loop EXCEPT !.pc = "done"]
    /\ UNCHANGED <<call, asm_vars, handler_vars, registry_vars, configured, driver>>

\* The loop resumes the task at the await inside the asynchronous body:
\* CancelledError is thrown in when a cancellation is due and propagates
\* through execute_tool, which catches nothing; otherwise the body ends.
Resume ==
    /\ loop.pc = "suspended"
    /\ LET r == IF loop.must_cancel THEN Raise("CancelledError", 1)
                ELSE execute_tool(call.tool, call.arguments)
       IN /\ outcome' = r
          /\ invoked' = invoked + r.invoked
    /\ loop' = [loop EXCEPT !.pc = "done", !.must_cancel = FALSE]
    /\ UNCHANGED <<call, asm_vars, handler_vars, registry_vars, configured, driver>>

CancelNext ==
    \/ AwaitFails
    \/ EnterBody
    \/ SuspendInBody
    \/ Cancel
    \/ ReturnFromBody
    \/ Resume

CancelSpec == CancelInit /\ [][CancelNext]_vars

\* C25: when the caller awaiting execute_tool is cancelled while the tool
\* is still running, its await ends with cancellation and delivers no
\* result, and a synchronous body that has started is not interrupted (it
\* runs to its end).
C25_Cancellation ==
    (loop.pc = "done" /\ loop.cancelled) =>
        /\ outcome.raised = "CancelledError"
        /\ outcome.value = None
        /\ ~Target(call.tool).is_async => invoked = 1

\* The caller was cancelled while def echo(v) ran; its await of
\* execute_tool returned the result all the same.
C25_ResultDeliveredAfterCancel ==
    /\ loop.pc = "done"
    /\ loop.cancelled
    /\ call.tool = echo
    /\ outcome.raised = "none"
    /\ outcome.value # None

\* ---------------------------------------------------------------------
\* The blocking and the suspending form of the dispatcher, side by side.
\* ---------------------------------------------------------------------

\* What the form that was not used gives for the same tool and arguments,
\* called from the same thread.
OtherForm ==
    IF call.entry = "execute_tool_sync"
    THEN execute_tool(call.tool, call.arguments)
    ELSE execute_tool_sync(call.tool, call.arguments, call.running_loop)

\* C26: for every supported tool and every argument payload,
\* execute_tool_sync and execute_tool end alike: the same result string,
\* or a failure of the same kind; the tool body runs as often in one form
\* as in the other, once when the call reaches the body.
C26_FormsAgree ==
    (call.entry \in {"execute_tool_sync", "execute_tool"} /\ Supported(call.tool)) =>
        /\ outcome.raised = OtherForm.raised
        /\ outcome.value = OtherForm.value
        /\ invoked = OtherForm.invoked
        /\ ReachesBody(call.tool, call.arguments) => invoked = 1

\* The two forms on a thread without a running loop: they agree.
C26_AgreeWithoutRunningLoop ==
    (call.entry = "execute_tool_sync" /\ Supported(call.tool) /\ ~call.running_loop) =>
        /\ outcome.raised = OtherForm.raised
        /\ outcome.value = OtherForm.value
        /\ invoked = OtherForm.invoked
        /\ ReachesBody(call.tool, call.arguments) => invoked = 1

\* ---------------------------------------------------------------------
\* Handler registry: dispatch to the handler set last, by exact class.
\* ---------------------------------------------------------------------

\* C27: after any sequence of register / set_handler calls, get_handler
\* gives, for every exception class, the handler set last for that class
\* (None for a class never set, whatever was set for other classes); and
\* handle(e), when a handler was set for the class of e, invokes that
\* handler exactly once, with e itself, and ends as the handler ended,
\* returning its value unchanged.
C27_HandlerDispatch ==
    /\ \A exception_type \in ExceptionTypes :
          get_handler(manager, exception_type) = configured[exception_type]
    /\ \A i \in DOMAIN handled :
          LET h == handled[i]
          IN h.last_set # None =>
                /\ h.calls = <<HandlerCall(h.last_set, h.e)>>
                /\ h.raised = call_handler(h.last_set, h.e).raised
                /\ h.value = call_handler(h.last_set, h.e).value
                /\ h.warnings = <<>>

\* Reached: the handler of ToolExecutionError was set to the raising one
\* and then to the custom one, another class was set in between, and
\* handle(e) of a ToolExecutionError returned the custom handler's value.
C27_Witness ==
    /\ Len(handled) = 2
    /\ type_name(handled[1].e) = ToolExecutionErrorName
    /\ handled[1].last_set = raising
    /\ handled[1].raised = "ValueError"
    /\ handled[2].e = handled[1].e
    /\ handled[2].last_set = custom
    /\ handled[2].raised = "none"
    /\ handled[2].value = call_handler(custom, handled[2].e).value
    /\ configured[ToolDoesNotExistErrorName] = raising
    /\ configured[ToolArgumentDecodeErrorName] = None

\* The last handle(e) call, after a Handle step.
LastHandled == handled'[Len(handled')]

\* A Handle step for an exception whose own class has no handler while the
\* base class LlmToolException has one.
C30_Step ==
    (/\ Len(handled') = Len(handled) + 1
     /\ configured[LlmToolExceptionName] # None
     /\ configured[type_name(LastHandled.e)] = None) =>
        /\ LastHandled.calls = <<>>
        /\ LastHandled.raised = "none"
        /\ Matches(LastHandled.value.s, 1, <<"U", "n", "h", "a", "n", "d", "l", "e", "d", " ", "t", "o", "o", "l", " ", "e", "x", "c", "e", "p", "t", "i", "o", "n">>)
        /\ Len(LastHandled.warnings) = 1

\* C30: handlers are looked up by the exact class of the exception: an
\* exception of a subclass of a class that has a handler, with no handler
\* for its own class, gets the "Unhandled tool exception" fallback (and its
\* warning); the handler of the parent class is not invoked.
C30_ExactKindLookup == [][C30_Step]_vars

\* Reached: a handler was set for LlmToolException only, and handle(e) of
\* a ToolArgumentDecodeError fell back without invoking it.
C30_Witness ==
    /\ Len(handled) = 1
    /\ type_name(handled[1].e) = ToolArgumentDecodeErrorName
    /\ configured = [exception_type \in ExceptionTypes |->
                        IF exception_type = LlmToolExceptionName THEN custom ELSE None]
    /\ handled[1].calls = <<>>
    /\ handled[1].handler = None
    /\ Len(handled[1].warnings) = 1

\* ---------------------------------------------------------------------
\* Tools of an unsupported kind.
\* ---------------------------------------------------------------------

\* C28: execute_tool_sync and execute_tool, given a tool that is not a
\* function, a bound method or a ToolDef (an integer, a string, a list,
\* None, a raw schema mapping), fail with ValueError "Invalid tool type",
\* whatever the arguments are, malformed JSON text included, and invoke
\* nothing.
C28_UnsupportedToolKind ==
    (call.entry \in {"execute_tool_sync", "execute_tool"} /\ ~Supported(call.tool)) =>
        /\ outcome.raised = "ValueError"
        /\ Matches(outcome.message, 1, <<"I", "n", "v", "a", "l", "i", "d", " ", "t", "o", "o", "l", " ", "t", "y", "p", "e">>)
        /\ outcome.value = None
        /\ invoked = 0

\* Reached: await execute_tool(None, '{') failed with ValueError
\* "Invalid tool type: <class 'NoneType'>" although the text is no JSON.
C28_Witness ==
    /\ call.entry = "execute_tool"
    /\ call.tool = NoTool("NoneType")
    /\ call.arguments = PyStr(<<"{">>)
    /\ outcome.raised = "ValueError"
    /\ outcome.message = <<"I", "n", "v", "a", "l", "i", "d", " ", "t", "o", "o", "l", " ", "t", "y", "p", "e", ":", " ", "<", "c", "l", "a", "s", "s", " ", "'", "N", "o", "n", "e", "T", "y", "p", "e", "'", ">">>
    /\ invoked = 0

\* Reached: execute_tool_sync of a raw schema mapping failed the same way.
C28_WitnessRaw ==
    /\ call.entry = "execute_tool_sync"
    /\ call.tool = RawToolDef(<<"r", "a", "w">>)
    /\ outcome.raised = "ValueError"
    /\ invoked = 0

\* ---------------------------------------------------------------------
\* liteai_sdk.LLM.stream_text_sync / stream_text: the chunk stream and the
\* queue of full messages.
\* ---------------------------------------------------------------------

\* AssistantMessageChunk.from_litellm_chunk(chunk): the fragments of the
\* raw chunk, as the consumer gets them.
from_litellm_chunk(chunk) == [chunks |-> openai_chunk_normalizer(chunk).value]

\* message.tool_calls of the assembled message: None without tool calls,
\* else the calls in the shape _execute_tool_calls reads.
message_tool_calls(assembled) ==
    IF assembled.tool_calls = <<>> THEN None
    ELSE PyList([k \in 1..Len(assembled.tool_calls) |->
                    ToolCall(assembled.tool_calls[k].id,
                             assembled.tool_calls[k].name,
                             assembled.tool_calls[k].arguments)])

\* _should_resolve_tool_calls(params, message): the condition.
_should_resolve_tool_calls(params, assembled) ==
    /\ params.execute_tools
    /\ params.tools # None
    /\ message_tool_calls(assembled) # None

\* The generator and the queue stream_text / stream_text_sync return.
\* form: the entry point ("none" before the call); pc: "created",
\* "yielded" (suspended at the yield), "exhausted" (the loop over the
\* response has ended), "message_put", "tools_put", "finished"
\* (StopIteration), "raised" (an exception left the generator); pos: chunks
\* taken from the response; yielded: what the consumer received; queue:
\* full_message_queue.
NewStream(form) ==
    [form |-> form, pc |-> "created", pos |-> 0, yielded |-> <<>>, queue |-> <<>>]

Text(t) == RawChunk(Delta(PyStr(t), None, None, None), None)
ToolCallDelta(index, id, name, arguments) ==
    RawChunk(Delta(None, None, None,
                   PyList(<<DeltaToolCall(index, id, name, PyStr(arguments))>>)), None)
Id1 == PyStr(<<"1">>)
Id2 == PyStr(<<"2">>)

\* The provider's streams: no chunk; text; echo called with arguments in
\* two fragments; arguments cut short; a tool that raises; a name no tool
\* has; two calls; two calls, index 1 first; a call that succeeds and one
\* that raises.
Responses ==
    { <<>>,
      <<Text(<<"a">>), Text(<<"b">>)>>,
      <<ToolCallDelta(0, Id1, PyStr(echo.name), <<"{", "\"", "v", "\"", ":">>),
        ToolCallDelta(0, None, None, <<"1", "}">>)>>,
      <<Text(<<"a">>), ToolCallDelta(0, Id1, PyStr(echo.name), <<"{", "\"", "v", "\"", ":">>)>>,
      <<ToolCallDelta(0, Id1, PyStr(fail.name), <<"{", "}">>)>>,
      <<ToolCallDelta(0, Id1, PyStr(<<"n", "o", "p", "e">>), <<"{", "}">>)>>,
      <<ToolCallDelta(0, Id1, PyStr(echo.name), <<"{", "\"", "v", "\"", ":", "1", "}">>),
        ToolCallDelta(1, Id2, PyStr(echo.name), <<"{", "\"", "v", "\"", ":">>),
        ToolCallDelta(1, None, None, <<"2", "}">>)>>,
      <<ToolCallDelta(1, Id2, PyStr(echo.name), <<"{", "\"", "v", "\"", ":", "2", "}">>),
        ToolCallDelta(0, Id1, PyStr(echo.name), <<"{", "\"", "v", "\"", ":", "1", "}">>)>>,
      <<ToolCallDelta(0, Id1, PyStr(echo.name), <<"{", "\"", "v", "\"", ":", "1", "}">>),
        ToolCallDelta(1, Id2, PyStr(fail.name), <<"{", "}">>)>> }

\* LlmRequestParams(execute_tools=, tools=) and the response to it.
StreamRequests ==
    [response : Responses, execute_tools : BOOLEAN,
     tools : {None, PyList(<<echo, fail>>)}]

StreamInit ==
    /\ request \in StreamRequests
    /\ driver = NewStream("none")
    /\ collector = NewCollector
    /\ message = None
    /\ last_op = "none"
    /\ raised = "none"
    /\ fed = <<>>
    /\ call = None
    /\ outcome = None
    /\ invoked = 0
    /\ manager = None
    /\ log = <<>>
    /\ handled = <<>>
    /\ listings = <<>>
    /\ prepared = None
    /\ found = None
    /\ configured = None
    /\ loop = None

\* llm.stream_text_sync(params): the generator and the queue are created.
StreamTextSync ==
    /\ driver.form = "none"
    /\ driver' = NewStream("stream_text_sync")
    /\ UNCHANGED <<asm_vars, exec_vars, handler_vars, registry_vars, configured, loop>>

\* await llm.stream_text(params)
StreamText ==
    /\ driver.form = "none"
    /\ driver' = NewStream("stream_text")
    /\ UNCHANGED <<asm_vars, exec_vars, handler_vars, registry_vars, configured, loop>>

\* The consumer asks the generator for the next chunk: the chunk yielded
\* before is collected, then the next is yielded, or the loop ends.
NextChunk ==
    /\ driver.form # "none"
    /\ driver.pc \in {"created", "yielded"}
    /\ IF driver.pc = "yielded"
       THEN /\ collector' = collect(collector, request.response[driver.pos]).value
            /\ fed' = Append(fed, request.response[driver.pos])
       ELSE UNCHANGED <<collector, fed>>
    /\ driver' = IF driver.pos < Len(request.response)
                 THEN [driver EXCEPT
                          !.pc = "yielded",
                          !.pos = @ + 1,
                          !.yielded = Append(@, from_litellm_chunk(
                                          request.response[driver.pos + 1]))]
                 ELSE [driver EXCEPT !.pc = "exhausted"]
    /\ UNCHANGED <<message, last_op, raised, exec_vars, handler_vars, registry_vars,
                   configured, loop>>

\* message = message_collector.get_message(); full_message_queue.put(message)
PutMessage ==
    /\ driver.pc = "exhausted"
    /\ message' = get_message(collector)
    /\ collector' = [collector EXCEPT !.state = "Finalized"]
    /\ driver' = [driver EXCEPT !.pc = "message_put",
                                !.queue = Append(@, get_message(collector))]
    /\ UNCHANGED <<last_op, raised, fed, exec_vars, handler_vars, registry_vars,
                   configured, loop>>

\* if _should_resolve_tool_calls(params, message): the tool calls are
\* executed and every tool message is put; an exception of
\* _execute_tool_calls leaves the generator.
PutToolMessages ==
    /\ driver.pc = "message_put"
    /\ IF _should_resolve_tool_calls(request, message)
       THEN LET r == _execute_tool_calls(request.tools.l, message_tool_calls(message).l)
            IN /\ raised' = r.raised
               /\ invoked' = invoked + r.invoked
               /\ driver' = IF r.raised # "none" THEN [driver EXCEPT !.pc = "raised"]
                            ELSE [driver EXCEPT !.pc = "tools_put",
                                                !.queue = @ \o r.value]
       ELSE /\ driver' = [driver EXCEPT !.pc = "tools_put"]
            /\ UNCHANGED <<raised, invoked>>
    /\ UNCHANGED <<collector, message, last_op, fed, call, outcome, handler_vars,
                   registry_vars, configured, loop>>

\* full_message_queue.put(None); the generator returns.
PutSentinel ==
    /\ driver.pc = "tools_put"
    /\ driver' = [driver EXCEPT !.pc = "finished", !.queue = Append(@, None)]
    /\ UNCHANGED <<asm_vars, exec_vars, handler_vars, registry_vars, configured, loop>>

StreamNext ==
    \/ StreamTextSync
    \/ StreamText
    \/ NextChunk
    \/ PutMessage
    \/ PutToolMessages
    \/ PutSentinel

StreamSpec == StreamInit /\ [][StreamNext]_vars

\* The consumer has drained the stream: the generator has ended.
Drained == driver.pc \in {"finished", "raised"}

\* Tool execution applies to the assembled message.
ExecutionApplies ==
    request.execute_tools /\ request.tools # None /\ message.tool_calls # <<>>

\* The ids of the tool calls of the assembled message that name a tool of
\* the request, in tool-call order.
ResolvableIds ==
    LET resolvable == SelectSeq(message.tool_calls,
                                LAMBDA tc : \E k \in 1..Len(request.tools.l) :
                                               PyStr(request.tools.l[k].name) = tc.name)
    IN [k \in 1..Len(resolvable) |-> resolvable[k].id]

\* The queue holds the assembled message, then the tool messages in
\* tool-call order when tool execution applies, then one None, last.
QueueComplete ==
    LET q == driver.queue
        middle == SubSeq(q, 2, Len(q) - 1)
    IN /\ Len(q) >= 2
       /\ q[1] = message
       /\ q[Len(q)] = None
       /\ \A k \in 1..(Len(q) - 1) : q[k] # None
       /\ IF ExecutionApplies
          THEN [k \in 1..Len(middle) |-> middle[k].tool_call_id] = ResolvableIds
          ELSE middle = <<>>

\* Nothing is queued before the response is exhausted, and a chunk is
\* yielded before it is collected.
OrderOfYieldCollectPut ==
    /\ driver.queue # <<>> =>
          /\ driver.pos = Len(request.response)
          /\ Len(fed) = Len(request.response)
    /\ Len(fed) <= Len(driver.yielded)
    /\ \A k \in 1..Len(fed) : fed[k] = request.response[k]
    /\ \A k \in 1..Len(driver.yielded) :
          driver.yielded[k] = from_litellm_chunk(request.response[k])

\* C29: nothing is put on the full-message queue before the chunk stream
\* is exhausted, every chunk is yielded before it is collected, and once
\* the consumer has drained the stream the queue holds the assembled
\* message, then the tool messages in tool-call order (when tool execution
\* applies), then exactly one None as its last item.
C29_QueueProtocol ==
    driver # None =>
        /\ OrderOfYieldCollectPut
        /\ Drained => QueueComplete

\* The protocol of the queue for the streams whose generator ends without
\* an exception, and the order of yield, collect and put for all.
C29_ProtocolUnlessToolExecutionRaises ==
    driver # None =>
        /\ OrderOfYieldCollectPut
        /\ driver.pc = "finished" => QueueComplete
        /\ driver.pc = "raised" => driver.queue = <<message>>

\* Reached: two tool calls resolved, the queue holds the message, the two
\* tool messages in tool-call order and None.
C29_TwoToolMessagesQueued ==
    /\ driver # None
    /\ driver.pc = "finished"
    /\ Len(driver.queue) = 4
    /\ driver.queue[2].tool_call_id = Id1
    /\ driver.queue[3].tool_call_id = Id2

\* Reached: the arguments of the tool call were cut short; the generator
\* raised and the queue holds the message and no None.
C29_NoSentinelAfterRaise ==
    /\ driver # None
    /\ driver.pc = "raised"
    /\ raised = "JSONDecodeError"
    /\ driver.queue = <<message>>

====
